---- MODULE Spec2Model ----
(***************************************************************************)
(* Visual-Novel-Forge: the session reducer (src/state/reducer.ts) and the  *)
(* host side of the turn / roster protocol (App, GMMenu).                  *)
(*                                                                         *)
(* Two specifications share the variables:                                 *)
(*   Spec        - the peer that owns the session (mode 'local' or         *)
(*                 'online-gm'): messages from the actions inbox, presence *)
(*                 removals, the host's own UI handlers, and the           *)
(*                 re-registration of the network handlers by the React    *)
(*                 effect; steps counts the handler runs, up to MaxOps.    *)
(*   SpecReducer - gameReducer applied to arbitrary actions.               *)
(* prev / lastAction are history variables: the document before the last   *)
(* step and the step that was taken.                                       *)
(***************************************************************************)
EXTENDS Integers, Sequences, FiniteSets, TLC

VARIABLES gameData, currentPlayerIndex, gamePhase, gameMode, myPlayerId, presence,
          closure, stale, now, prev, lastAction, steps, nextId, store, peer, wire, view,
          channel

vars == <<gameData, currentPlayerIndex, gamePhase, gameMode, myPlayerId, presence,
          closure, stale, now, prev, lastAction, steps, nextId, store, peer, wire, view,
          channel>>

(* ------------------------------ bounds -------------------------------- *)
NumIds == 3
MaxLog == 6
MaxCoins == 2
MaxDelta == 2
HealthCap == 4
HeroMaxHealth == 2
MaxClock == 2
MaxAssets == 2
MaxChat == 1
MaxQuests == 1
MaxChars == 3
MaxSteps == 2
MaxOps == 4
MaxJoinIds == 6
MaxBurst == 2
MaxAssetOps == 7
MaxShown == 1
MaxSnapshots == 1
MaxInbox == 3
MaxRejoins == 2
MaxScript == 3
MaxJoins == 1
MaxBroadcasts == 3

(* ------------------------- program constants -------------------------- *)
MAX_PLAYERS == 5
NarratorHealth == 999

PlayerIds == 1..NumIds
NoId == 0
NoChar == "none"
NoAsset == "null"
CharIds == {"narrator", "c1"}

(* A player name: a base name and whether it is written capitalised        *)
(* ("amy" / "Amy"); toLowerCase keeps the base and drops the capital.      *)
Names == [base : PlayerIds, upper : BOOLEAN]
toLowerCase(n) == [n EXCEPT !.upper = FALSE]
HostName == [base |-> 1, upper |-> FALSE]

(* ----------------------------- sequences ------------------------------ *)
\* Array.prototype.filter is Sequences!SelectSeq
SeqMap(s, f(_)) == [i \in DOMAIN s |-> f(s[i])]

\* Array.prototype.findIndex: 0-based index of the first match, -1 if none
findIndex(s, test(_)) ==
    IF \E i \in DOMAIN s : test(s[i])
    THEN (CHOOSE i \in DOMAIN s : test(s[i]) /\ \A j \in 1..(i-1) : ~test(s[j])) - 1
    ELSE -1

IsPrefix(s, t) == Len(s) <= Len(t) /\ \A i \in DOMAIN s : s[i] = t[i]

Abs(n) == IF n < 0 THEN -n ELSE n
Max(a, b) == IF a >= b THEN a ELSE b

(* ----------------------------- log entries ---------------------------- *)
(* Every entry carries the same fields; the fields a variant does not have *)
(* hold the neutral value.  A template string is kept as its parts.        *)
NoText == [kind |-> "none", name |-> "", verb |-> "", amount |-> 0, health |-> 0, maxHealth |-> 0]
NoChoice == [present |-> FALSE, hasEffects |-> FALSE, coinsSet |-> FALSE, coins |-> 0,
             hpSet |-> FALSE, hp |-> 0, target |-> NoChar]

Entry(type, characterId, assetId, playerId, choice, text) ==
    [type |-> type, characterId |-> characterId, assetId |-> assetId,
     playerId |-> playerId, choice |-> choice, text |-> text]

Text(kind, name) == [NoText EXCEPT !.kind = kind, !.name = name]
StatChange(text) == Entry("stat_change", NoChar, NoAsset, NoId, NoChoice, text)
QuestStatus(text) == Entry("quest_status", NoChar, NoAsset, NoId, NoChoice, text)
Dialogue(c) == Entry("dialogue", c, NoAsset, NoId, NoChoice, Text("user", ""))
SpriteChange(c, a) == Entry("sprite_change", c, a, NoId, NoChoice, NoText)
ChoiceEntry == Entry("choice", NoChar, NoAsset, NoId, NoChoice, NoText)
Effects(coinsSet, coins, hpSet, hp, target) ==
    [present |-> TRUE, hasEffects |-> TRUE, coinsSet |-> coinsSet, coins |-> coins,
     hpSet |-> hpSet, hp |-> hp, target |-> target]
PlainChoice == [NoChoice EXCEPT !.present = TRUE]
ChoiceSelection(p, c, choice) == Entry("choice_selection", c, NoAsset, p, choice, NoText)

\* `${name} ${d > 0 ? 'gained' : 'lost'} ${Math.abs(d)} coins.`
CoinText(name, d) ==
    [NoText EXCEPT !.kind = "coins", !.name = name,
                   !.verb = IF d > 0 THEN "gained" ELSE "lost", !.amount = Abs(d)]
\* `${name} ${hp > 0 ? 'gained' : 'lost'} ${Math.abs(hp)} HP. (${health}/${maxHealth})`
HpText(name, hp, health, maxHealth) ==
    [NoText EXCEPT !.kind = "hp", !.name = name,
                   !.verb = IF hp > 0 THEN "gained" ELSE "lost", !.amount = Abs(hp),
                   !.health = health, !.maxHealth = maxHealth]
DefeatedText(name) == Text("defeated", name)
ReturnedText(name) == Text("returned", name)
LeftText(name) == Text("left", name)
JoinedText(name) == Text("joined", name)
KickedText(name) == Text("kicked", name)

(* ------------------------------ documents ----------------------------- *)
Player(id, name, lastSeenLogIndex, coins) ==
    [name |-> name, coins |-> coins, id |-> id, lastSeenLogIndex |-> lastSeenLogIndex,
     isWaitingForApproval |-> FALSE]

Character(id, name, health, maxHealth, status) ==
    [name |-> name, health |-> health, maxHealth |-> maxHealth, id |-> id,
     status |-> status, spriteAssetIds |-> <<>>]

\* constants.ts gives the narrator no status; the Character type allows only
\* 'active' and 'defeated', and a character is created active
NARRATOR_CHARACTER == Character("narrator", "Narrator", NarratorHealth, NarratorHealth, "active")
HERO_CHARACTER == Character("c1", "Hero", HeroMaxHealth, HeroMaxHealth, "active")

INITIAL_GAME_DATA ==
    [title |-> "Untitled Adventure", gmRules |-> "rules",
     assets |-> <<>>, characters |-> <<NARRATOR_CHARACTER>>, storyLog |-> <<>>,
     quests |-> <<>>, chatLog |-> <<>>, lobbyChatLog |-> <<>>, lobbyMusicUrl |-> "null",
     players |-> <<>>, pendingAssetApprovals |-> <<>>]

Quest(id, title, status, coins) ==
    [id |-> id, status |-> status, title |-> title, rewards |-> [coins |-> coins]]

(* ------------------------------- reducer ------------------------------ *)
\* ADD_LOG_ENTRY with a choice_selection entry that has no `choice` field:
\* `action.payload.choice.effects` reads a property of undefined.
Throws(state, action) ==
    /\ action.type = "ADD_LOG_ENTRY"
    /\ action.payload.type = "choice_selection"
    /\ ~action.payload.choice.present

\* a reading of `effects.coins` as "is set", which the code does not have
TruthyIfSet(isSet, n) == isSet

\* `effects.coins` / `effects.hp` as a condition: set and not 0
Truthy(isSet, n) == isSet /\ n # 0

\* the coins branch of ADD_LOG_ENTRY: the players after it
CoinPlayers(players, playerId, effects) ==
    LET playerIndex == findIndex(players, LAMBDA p : p.id = playerId)
    IN  IF playerIndex # -1 /\ Truthy(effects.coinsSet, effects.coins)
        THEN [players EXCEPT ![playerIndex + 1].coins = @ + effects.coins]
        ELSE players

\* the coins branch of ADD_LOG_ENTRY: the narration it pushes
CoinEntries(players, playerId, effects) ==
    LET playerIndex == findIndex(players, LAMBDA p : p.id = playerId)
    IN  IF playerIndex # -1 /\ Truthy(effects.coinsSet, effects.coins)
        THEN <<StatChange(CoinText(players[playerIndex + 1].name, effects.coins))>>
        ELSE <<>>

\* targetChar.health = Math.max(0, oldHp + effects.hp)
NewHealth(oldHp, hp) == Max(0, oldHp + hp)

\* a defeat test that the clamped health can never meet
DefeatsBelowZero(health, oldStatus) == health < 0 /\ oldStatus = "active"

\* targetChar.health <= 0 && oldStatus === 'active'
Defeats(health, oldStatus) == health <= 0 /\ oldStatus = "active"

\* the hp branch of ADD_LOG_ENTRY: the characters after it
HpCharacters(characters, effects) ==
    LET targetCharIndex == findIndex(characters, LAMBDA c : c.id = effects.target)
    IN  IF targetCharIndex # -1 /\ Truthy(effects.hpSet, effects.hp)
        THEN LET targetChar == characters[targetCharIndex + 1]
                 health == NewHealth(targetChar.health, effects.hp)
             IN  [characters EXCEPT ![targetCharIndex + 1] =
                     [targetChar EXCEPT !.health = health,
                                        !.status = IF Defeats(health, targetChar.status)
                                                   THEN "defeated" ELSE @]]
        ELSE characters

\* the hp branch of ADD_LOG_ENTRY: the narration it pushes
HpEntries(characters, effects) ==
    LET targetCharIndex == findIndex(characters, LAMBDA c : c.id = effects.target)
    IN  IF targetCharIndex # -1 /\ Truthy(effects.hpSet, effects.hp)
        THEN LET targetChar == characters[targetCharIndex + 1]
                 health == NewHealth(targetChar.health, effects.hp)
             IN  <<StatChange(HpText(targetChar.name, effects.hp, health, targetChar.maxHealth))>>
                 \o (IF Defeats(health, targetChar.status)
                     THEN <<StatChange(DefeatedText(targetChar.name)),
                            SpriteChange(targetChar.id, NoAsset)>>
                     ELSE <<>>)
        ELSE <<>>

\* the narrations pushed in the other order: HP before coins
EffectEntriesHpFirst(state, entry) ==
    <<entry>> \o HpEntries(state.characters, entry.choice)
              \o CoinEntries(state.players, entry.playerId, entry.choice)

\* newLogEntries of ADD_LOG_ENTRY, in the order they are pushed
EffectEntries(state, entry) ==
    <<entry>> \o CoinEntries(state.players, entry.playerId, entry.choice)
              \o HpEntries(state.characters, entry.choice)

\* an ADD_LOG_ENTRY that puts the plain entry in front of the log
ReduceAddLogEntryInFront(state, entry) ==
    IF entry.type # "choice_selection" \/ ~entry.choice.hasEffects
    THEN [state EXCEPT !.storyLog = <<entry>> \o @]
    ELSE [state EXCEPT !.players = CoinPlayers(@, entry.playerId, entry.choice),
                       !.characters = HpCharacters(@, entry.choice),
                       !.storyLog = @ \o EffectEntries(state, entry)]

ReduceAddLogEntry(state, entry) ==
    IF entry.type # "choice_selection" \/ ~entry.choice.hasEffects
    THEN [state EXCEPT !.storyLog = Append(@, entry)]
    ELSE [state EXCEPT !.players = CoinPlayers(@, entry.playerId, entry.choice),
                       !.characters = HpCharacters(@, entry.choice),
                       !.storyLog = @ \o EffectEntries(state, entry)]

ReduceResetStoryLog(state) == [state EXCEPT !.storyLog = <<>>]

\* originalChar && originalChar.health > 0 && updatedChar.health <= 0
UpdateDefeats(characters, payload) ==
    \E i \in DOMAIN characters :
        /\ i = findIndex(characters, LAMBDA c : c.id = payload.id) + 1
        /\ characters[i].health > 0
        /\ payload.health <= 0

\* originalChar && originalChar.status === 'defeated' && updatedChar.status === 'active'
UpdateRevives(characters, payload) ==
    \E i \in DOMAIN characters :
        /\ i = findIndex(characters, LAMBDA c : c.id = payload.id) + 1
        /\ characters[i].status = "defeated"
        /\ payload.status = "active"

ReduceUpdateCharacter(state, payload) ==
    LET defeats == UpdateDefeats(state.characters, payload)
        updatedChar == IF defeats THEN [payload EXCEPT !.status = "defeated"] ELSE payload
        newLogEntries ==
            IF defeats
            THEN <<StatChange(DefeatedText(updatedChar.name)), SpriteChange(updatedChar.id, NoAsset)>>
            ELSE IF UpdateRevives(state.characters, payload)
                 THEN <<StatChange(ReturnedText(updatedChar.name))>>
                 ELSE <<>>
    IN  [state EXCEPT !.characters = SeqMap(@, LAMBDA c : IF c.id = updatedChar.id THEN updatedChar ELSE c),
                      !.storyLog = @ \o newLogEntries]

\* an UPDATE_QUEST guard without the same-status test
QuestUnknown(quests, payload) == ~\E i \in DOMAIN quests : quests[i].id = payload.id

\* !questToUpdate || questToUpdate.status === action.payload.status
QuestNoOp(quests, payload) ==
    \/ ~\E i \in DOMAIN quests : quests[i].id = payload.id
    \/ quests[findIndex(quests, LAMBDA q : q.id = payload.id) + 1].status = payload.status

ReduceUpdateQuest(state, payload) ==
    IF QuestNoOp(state.quests, payload) THEN state
    ELSE LET questToUpdate == state.quests[findIndex(state.quests, LAMBDA q : q.id = payload.id) + 1]
             logEntries ==
                IF payload.status = "completed"
                THEN <<QuestStatus(Text("quest_completed", questToUpdate.title))>>
                     \o (IF questToUpdate.rewards.coins > 0
                         THEN <<StatChange([Text("reward", "Party") EXCEPT !.amount = questToUpdate.rewards.coins])>>
                         ELSE <<>>)
                ELSE <<>>
         IN  [state EXCEPT !.quests = SeqMap(@, LAMBDA q : IF q.id = payload.id
                                                          THEN [q EXCEPT !.status = payload.status] ELSE q),
                           !.storyLog = @ \o logEntries]

\* an ADD_PLAYER guard that looks at the capacity only
AddPlayerRejectedWhenFull(players, payload) == Len(players) >= MAX_PLAYERS

\* state.players.length >= MAX_PLAYERS || state.players.find(p => p.id === action.payload.id)
AddPlayerRejected(players, payload) ==
    Len(players) >= MAX_PLAYERS \/ \E i \in DOMAIN players : players[i].id = payload.id

ReduceAddPlayer(state, payload) ==
    IF AddPlayerRejected(state.players, payload) THEN state
    ELSE [state EXCEPT !.players = Append(@, payload)]

ReduceUpdatePlayer(state, payload) ==
    [state EXCEPT !.players = SeqMap(@, LAMBDA p : IF p.id = payload.id THEN payload ELSE p)]

ReduceRemovePlayer(state, payload) ==
    [state EXCEPT !.players = SelectSeq(@, LAMBDA p : p.id # payload.id)]

ReduceSetPlayers(state, payload) == [state EXCEPT !.players = payload]

Asset(id, type, isPublished) == [type |-> type, id |-> id, isPublished |-> isPublished]
Approval(assetId, characterIdToAssign, submittingPlayerId) ==
    [assetId |-> assetId, characterIdToAssign |-> characterIdToAssign,
     submittingPlayerId |-> submittingPlayerId]

\* `asset-${Date.now()}`, `asset-${Date.now()}-${index}`, `char-...`, `quest-...`
AssetId(t) == "asset-" \o ToString(t)
BatchAssetId(t, index) == "asset-" \o ToString(t) \o "-" \o ToString(index)
CharId(t) == "char-" \o ToString(t)
QuestId(t) == "quest-" \o ToString(t)

\* { id, isPublished: false, ...action.payload }
ReduceAddAsset(state, payload, t) ==
    [state EXCEPT !.assets = Append(@, Asset(AssetId(t), payload.type,
                                            IF payload.publishedSet THEN payload.isPublished ELSE FALSE))]

\* a DELETE_ASSET that removes the asset and leaves the characters alone
ReduceDeleteAssetOnly(state, payload) ==
    [state EXCEPT !.assets = SelectSeq(@, LAMBDA a : a.id # payload.id)]

ReduceDeleteAsset(state, payload) ==
    [state EXCEPT !.assets = SelectSeq(@, LAMBDA a : a.id # payload.id),
                  !.characters = SeqMap(@, LAMBDA c :
                       [c EXCEPT !.spriteAssetIds = SelectSeq(@, LAMBDA id : id # payload.id)])]

ReduceSetAssetPublished(state, payload) ==
    [state EXCEPT !.assets = SeqMap(@, LAMBDA a : IF a.id = payload.id
                                                  THEN [a EXCEPT !.isPublished = payload.isPublished] ELSE a)]

\* health: 100, maxHealth: 100, status: 'active'
DefaultHealth == 100
ReduceAddCharacter(state, payload, t) ==
    [state EXCEPT !.characters =
        Append(@, [Character(CharId(t), payload.name, DefaultHealth, DefaultHealth, "active")
                      EXCEPT !.spriteAssetIds = payload.spriteAssetIds])]

ReduceDeleteCharacter(state, payload) ==
    [state EXCEPT !.characters = SelectSeq(@, LAMBDA c : c.id # payload.id)]

ReduceBatchAddData(state, payload) ==
    [state EXCEPT !.characters = @ \o payload.characters, !.assets = @ \o payload.assets]

\* { id: `asset-${Date.now()}-${index}`, ...asset }
ReduceBatchAddAssets(state, payload, t) ==
    [state EXCEPT !.assets = @ \o [i \in DOMAIN payload |->
                                      Asset(BatchAssetId(t, i - 1), payload[i].type, payload[i].isPublished)]]

ReduceAddQuest(state, payload, t) ==
    [state EXCEPT !.quests = Append(@, Quest(QuestId(t), payload.title, "active", payload.coins))]

ReduceAddChatMessage(state, payload) == [state EXCEPT !.chatLog = Append(@, payload)]
ReduceAddLobbyChatMessage(state, payload) == [state EXCEPT !.lobbyChatLog = Append(@, payload)]
ReduceSetLobbyMusic(state, payload) == [state EXCEPT !.lobbyMusicUrl = payload]

SetWaiting(players, id, waiting) ==
    SeqMap(players, LAMBDA p : IF p.id = id THEN [p EXCEPT !.isWaitingForApproval = waiting] ELSE p)

ReduceSubmitAsset(state, payload, t) ==
    [state EXCEPT !.assets = Append(@, Asset(AssetId(t), payload.type, FALSE)),
                  !.pendingAssetApprovals =
                       Append(@, Approval(AssetId(t), payload.characterIdToAssign, payload.submittingPlayerId)),
                  !.players = SetWaiting(@, payload.submittingPlayerId, TRUE)]

ReduceApproveAsset(state, payload) ==
    LET characterIndex == findIndex(state.characters, LAMBDA c : c.id = payload.characterIdToAssign)
    IN  IF characterIndex = -1 THEN state
        ELSE [state EXCEPT
                !.assets = SeqMap(@, LAMBDA a : IF a.id = payload.assetId
                                                THEN [a EXCEPT !.isPublished = TRUE] ELSE a),
                !.characters[characterIndex + 1].spriteAssetIds = Append(@, payload.assetId),
                !.pendingAssetApprovals = SelectSeq(@, LAMBDA p : p.assetId # payload.assetId),
                !.players = SetWaiting(@, payload.submittingPlayerId, FALSE)]

ReduceRejectAsset(state, payload) ==
    [state EXCEPT !.assets = SelectSeq(@, LAMBDA a : a.id # payload.assetId),
                  !.pendingAssetApprovals = SelectSeq(@, LAMBDA p : p.assetId # payload.assetId),
                  !.players = SetWaiting(@, payload.submittingPlayerId, FALSE)]

(* A snapshot as it comes back from the store: the document and the set of *)
(* fields the store left out (it keeps no empty arrays, no nulls, no "").  *)
CollectionFields == {"assets", "characters", "storyLog", "quests", "chatLog",
                     "lobbyChatLog", "players", "pendingAssetApprovals"}
Wire(data) ==
    [data |-> data,
     omitted |-> {f \in CollectionFields : data[f] = <<>>}
                 \cup (IF data.lobbyMusicUrl = "null" THEN {"lobbyMusicUrl"} ELSE {})
                 \cup (IF data.title = "" THEN {"title"} ELSE {})]

\* a reading of `payload.f || []` that drops the field
AlwaysEmpty(payload, f) == <<>>

\* payload.f || []
OrEmpty(payload, f) == IF f \in payload.omitted THEN <<>> ELSE payload.data[f]

ReduceSetGameData(payload) ==
    [title |-> IF "title" \in payload.omitted \/ payload.data.title = ""
               THEN "Untitled Adventure" ELSE payload.data.title,
     gmRules |-> IF "gmRules" \in payload.omitted THEN "undefined" ELSE payload.data.gmRules,
     assets |-> OrEmpty(payload, "assets"),
     characters |-> OrEmpty(payload, "characters"),
     storyLog |-> OrEmpty(payload, "storyLog"),
     quests |-> OrEmpty(payload, "quests"),
     chatLog |-> OrEmpty(payload, "chatLog"),
     lobbyChatLog |-> OrEmpty(payload, "lobbyChatLog"),
     lobbyMusicUrl |-> IF "lobbyMusicUrl" \in payload.omitted THEN "null" ELSE payload.data.lobbyMusicUrl,
     players |-> OrEmpty(payload, "players"),
     pendingAssetApprovals |-> OrEmpty(payload, "pendingAssetApprovals")]

gameReducer(state, action, t) ==
    CASE action.type = "UPDATE_TITLE" -> [state EXCEPT !.title = action.payload]
      [] action.type = "UPDATE_GM_RULES" -> [state EXCEPT !.gmRules = action.payload]
      [] action.type = "ADD_ASSET" -> ReduceAddAsset(state, action.payload, t)
      [] action.type = "DELETE_ASSET" -> ReduceDeleteAsset(state, action.payload)
      [] action.type = "SET_ASSET_PUBLISHED" -> ReduceSetAssetPublished(state, action.payload)
      [] action.type = "ADD_CHARACTER" -> ReduceAddCharacter(state, action.payload, t)
      [] action.type = "UPDATE_CHARACTER" -> ReduceUpdateCharacter(state, action.payload)
      [] action.type = "DELETE_CHARACTER" -> ReduceDeleteCharacter(state, action.payload)
      [] action.type = "ADD_LOG_ENTRY" -> ReduceAddLogEntry(state, action.payload)
      [] action.type = "RESET_STORY_LOG" -> ReduceResetStoryLog(state)
      [] action.type = "BATCH_ADD_DATA" -> ReduceBatchAddData(state, action.payload)
      [] action.type = "BATCH_ADD_ASSETS" -> ReduceBatchAddAssets(state, action.payload, t)
      [] action.type = "ADD_QUEST" -> ReduceAddQuest(state, action.payload, t)
      [] action.type = "UPDATE_QUEST" -> ReduceUpdateQuest(state, action.payload)
      [] action.type = "ADD_CHAT_MESSAGE" -> ReduceAddChatMessage(state, action.payload)
      [] action.type = "ADD_LOBBY_CHAT_MESSAGE" -> ReduceAddLobbyChatMessage(state, action.payload)
      [] action.type = "SET_LOBBY_MUSIC" -> ReduceSetLobbyMusic(state, action.payload)
      [] action.type = "SET_GAME_DATA" -> ReduceSetGameData(action.payload)
      [] action.type = "ADD_PLAYER" -> ReduceAddPlayer(state, action.payload)
      [] action.type = "UPDATE_PLAYER" -> ReduceUpdatePlayer(state, action.payload)
      [] action.type = "REMOVE_PLAYER" -> ReduceRemovePlayer(state, action.payload)
      [] action.type = "SET_PLAYERS" -> ReduceSetPlayers(state, action.payload)
      [] action.type = "SUBMIT_ASSET_FOR_APPROVAL" -> ReduceSubmitAsset(state, action.payload, t)
      [] action.type = "APPROVE_ASSET" -> ReduceApproveAsset(state, action.payload)
      [] action.type = "REJECT_ASSET" -> ReduceRejectAsset(state, action.payload)
      [] OTHER -> state

Act(type, payload) == [type |-> type, payload |-> payload]

(* ====================== SpecReducer: the reducer ====================== *)
(* The document after setup: two players, the narrator and one character,  *)
(* one active quest.  Every step applies gameReducer to one action.        *)
NameOfId(id) == [base |-> id, upper |-> FALSE]
SETUP_GAME_DATA ==
    [INITIAL_GAME_DATA EXCEPT
        !.characters = <<NARRATOR_CHARACTER, HERO_CHARACTER>>,
        !.players = <<Player(1, NameOfId(1), 0, 0), Player(2, NameOfId(2), 0, 0)>>,
        !.quests = <<Quest(QuestId(0), "quest", "active", 1)>>]

NoAction == Act("INIT", NoId)

\* the node games/{gameId} of the store: the state the host last wrote and
\* the actions inbox the peers push to; NoStore when there is no session
NoStore == [state |-> NoId, actions |-> <<>>]

\* the App of a joining peer before it joins: useState defaults (part_010:72-86)
\* and the module state of networkService (listeners, disconnect hook)
NoPeer ==
    [gameData |-> INITIAL_GAME_DATA, currentPlayerIndex |-> 0, gamePhase |-> "setup",
     myPlayerId |-> NoId, mode |-> "none", connectionStatus |-> "disconnected", isKicked |-> FALSE,
     subscribed |-> FALSE, timer |-> FALSE, hook |-> FALSE]

\* events on their way: how many messages of the inbox the host's listener
\* has delivered, the presence entries whose removal it has not yet been
\* told, and whether a value of the state path waits for the peer
NoWire == [handled |-> 0, removed |-> <<>>, fresh |-> FALSE]

\* GameView: useState defaults (GameView.tsx:431-439)
\* sprites maps a character id to an asset id; "unset" stands for a missing key
NoDialogue == [text |-> NoText, characterName |-> "null"]
EmptyScene ==
    [backgroundUrl |-> "null", cgUrl |-> "null", sprites |-> [c \in CharIds |-> "unset"],
     dialogue |-> NoDialogue]
\* turnStarted is the ref of that name; effect tells that the playback effect
\* has a changed dependency and is still to run; replaced is the scene that
\* the last catch-up found
NoView ==
    [baseScene |-> EmptyScene, playbackState |-> "idle", playbackLogIndex |-> 0,
     logsToPlay |-> <<>>, turnStarted |-> FALSE, effect |-> FALSE, replaced |-> EmptyScene]
HostIdle == [currentPlayerIndex |-> 0, gamePhase |-> "setup", players |-> <<>>, storyLogLength |-> 0]

\* joinGameChannel before any event: `let mainState = null; let musicData = null`;
\* nothing written under games/{id}/state and games/{id}/music, nothing handled
NoChannel ==
    [state |-> <<>>, subscribed |-> FALSE, music |-> <<>>, toWrite |-> <<>>,
     mainState |-> <<>>, musicData |-> <<>>, stateEvent |-> FALSE, musicEvent |-> FALSE,
     delivered |-> <<>>, sent |-> <<>>]

InitReducer ==
    /\ gameData = SETUP_GAME_DATA
    /\ currentPlayerIndex = 0
    /\ gamePhase = "play"
    /\ gameMode = "local"
    /\ myPlayerId = NoId
    /\ presence = {}
    /\ closure = HostIdle
    /\ stale = FALSE
    /\ now = 1
    /\ prev = SETUP_GAME_DATA
    /\ lastAction = NoAction
    /\ steps = 0
    /\ nextId = NumIds + 1
    /\ store = NoStore
    /\ peer = NoPeer
    /\ wire = NoWire
    /\ view = NoView
    /\ channel = NoChannel

hostVars == <<currentPlayerIndex, gamePhase, gameMode, peer, wire, view, channel, store, myPlayerId, presence, closure, stale, nextId>>

\* the numbers a document may hold stay inside the bounds
WithinBounds(state) ==
    /\ Len(state.storyLog) <= MaxLog
    /\ \A i \in DOMAIN state.players : Abs(state.players[i].coins) <= MaxCoins
    /\ \A i \in DOMAIN state.characters :
           state.characters[i].health <= state.characters[i].maxHealth + HealthCap
    /\ Len(state.assets) <= MaxAssets
    /\ Len(state.characters) <= MaxChars
    /\ Len(state.quests) <= MaxQuests
    /\ Len(state.chatLog) <= MaxChat
    /\ Len(state.lobbyChatLog) <= MaxChat
    /\ Len(state.pendingAssetApprovals) <= MaxAssets

\* dispatch(action) on the reducer
Dispatch(action) ==
    /\ ~Throws(gameData, action)
    /\ WithinBounds(gameReducer(gameData, action, now))
    /\ gameData' = gameReducer(gameData, action, now)
    /\ prev' = gameData
    /\ lastAction' = action
    /\ steps' = steps + 1
    /\ UNCHANGED <<hostVars, now>>

Apply(action) == steps < MaxSteps /\ Dispatch(action)

(* ------------------------------ the inputs ---------------------------- *)
CoinInputs == {<<FALSE, 0>>, <<TRUE, 0>>, <<TRUE, 1>>, <<TRUE, -1>>}
HpInputs == {<<FALSE, 0>>, <<TRUE, 0>>, <<TRUE, 1>>, <<TRUE, -1>>, <<TRUE, -MaxDelta>>}
ChoiceInputs ==
    {PlainChoice}
    \cup {Effects(c[1], c[2], h[1], h[2], "c1") : c \in CoinInputs, h \in HpInputs}
    \cup {Effects(FALSE, 0, TRUE, h, "narrator") : h \in {1, -1}}
    \cup {Effects(c[1], c[2], TRUE, -1, NoChar) : c \in CoinInputs}
EntryInputs ==
    {Dialogue("c1"), ChoiceEntry, SpriteChange("c1", NoAsset)}
    \cup {ChoiceSelection(p, "c1", ch) : p \in {1, NumIds}, ch \in ChoiceInputs}

CharacterInputs ==
    {Character("c1", "Hero", h, HeroMaxHealth, st) :
        h \in {-1, 0, 1, HeroMaxHealth}, st \in {"active", "defeated"}}
    \cup {Character("ghost", "Ghost", 0, 1, "active")}

ChatMessage(senderId, text) == [text |-> text, senderId |-> senderId]

AddLogEntry == \E entry \in EntryInputs : Apply(Act("ADD_LOG_ENTRY", entry))
ResetStoryLog == Apply(Act("RESET_STORY_LOG", NoId))
UpdateCharacter == \E c \in CharacterInputs : Apply(Act("UPDATE_CHARACTER", c))
AddCharacter == Apply(Act("ADD_CHARACTER", [name |-> "New Character", spriteAssetIds |-> <<>>]))
DeleteCharacter == \E id \in CharIds : Apply(Act("DELETE_CHARACTER", [id |-> id]))
BatchAddData ==
    Apply(Act("BATCH_ADD_DATA", [assets |-> <<Asset("premade-asset", "characterSprite", TRUE)>>,
                                 characters |-> <<Character("premade", "Premade", 1, 1, "active")>>]))
AddQuest == Apply(Act("ADD_QUEST", [coins |-> 0, title |-> "quest"]))
UpdateQuest ==
    \E id \in {QuestId(0), QuestId(now), "quest-unknown"}, st \in {"active", "completed"} :
        Apply(Act("UPDATE_QUEST", [id |-> id, status |-> st]))
AddPlayer == \E id \in PlayerIds : Apply(Act("ADD_PLAYER", Player(id, NameOfId(id), 0, 0)))
UpdatePlayer ==
    \E i \in DOMAIN gameData.players, c \in 0..1 :
        Apply(Act("UPDATE_PLAYER", [gameData.players[i] EXCEPT !.coins = c]))
RemovePlayer == \E id \in PlayerIds : Apply(Act("REMOVE_PLAYER", [id |-> id]))
SetPlayers == \E ps \in {<<>>, <<Player(1, NameOfId(1), 0, 0)>>} : Apply(Act("SET_PLAYERS", ps))
AddAsset ==
    \E pub \in {<<FALSE, FALSE>>, <<TRUE, TRUE>>} :
        Apply(Act("ADD_ASSET", [type |-> "characterSprite", isPublished |-> pub[2], publishedSet |-> pub[1]]))
BatchAddAssets ==
    Apply(Act("BATCH_ADD_ASSETS", <<[type |-> "background", isPublished |-> TRUE],
                                    [type |-> "cg", isPublished |-> TRUE]>>))
DeleteAsset ==
    \E i \in DOMAIN gameData.assets : Apply(Act("DELETE_ASSET", [id |-> gameData.assets[i].id]))
SetAssetPublished ==
    \E i \in DOMAIN gameData.assets, b \in BOOLEAN :
        Apply(Act("SET_ASSET_PUBLISHED", [id |-> gameData.assets[i].id, isPublished |-> b]))
SubmitAsset ==
    \E c \in {"c1", "ghost"} :
        Apply(Act("SUBMIT_ASSET_FOR_APPROVAL",
                  [type |-> "characterSprite", characterIdToAssign |-> c, submittingPlayerId |-> 1]))
ApproveAsset ==
    \E i \in DOMAIN gameData.pendingAssetApprovals :
        Apply(Act("APPROVE_ASSET", gameData.pendingAssetApprovals[i]))
RejectAsset ==
    \E i \in DOMAIN gameData.pendingAssetApprovals :
        Apply(Act("REJECT_ASSET", gameData.pendingAssetApprovals[i]))
AddChatMessage == Apply(Act("ADD_CHAT_MESSAGE", ChatMessage(1, "hi")))
AddLobbyChatMessage == Apply(Act("ADD_LOBBY_CHAT_MESSAGE", ChatMessage(1, "hi")))
SetLobbyMusic == \E m \in {"null", "data:audio"} : Apply(Act("SET_LOBBY_MUSIC", m))
UpdateTitle == \E t \in {"", "Saga"} : Apply(Act("UPDATE_TITLE", t))
UpdateGmRules == Apply(Act("UPDATE_GM_RULES", "house rules"))
\* a document of the host in which every collection holds an element, and the
\* same document with the collections of `fields` empty
REMOTE_GAME_DATA ==
    [SETUP_GAME_DATA EXCEPT
        !.assets = <<Asset(AssetId(1), "characterSprite", FALSE)>>,
        !.storyLog = <<Dialogue("c1")>>,
        !.chatLog = <<ChatMessage(2, "hi")>>,
        !.lobbyChatLog = <<ChatMessage(2, "hi")>>,
        !.pendingAssetApprovals = <<Approval(AssetId(1), "c1", 2)>>]
Emptied(data, fields) == [f \in DOMAIN data |-> IF f \in fields THEN <<>> ELSE data[f]]

\* a full snapshot: the fresh document, or the document as it was one step ago
SetGameData ==
    \E d \in {INITIAL_GAME_DATA, prev} : Apply(Act("SET_GAME_DATA", Wire(d)))
UnknownAction == Apply(Act("NOT_AN_ACTION", NoId))

\* the reducer throws while the component renders: the error boundary of
\* index.tsx takes the place of the app, which handles nothing after that
Crash(action) ==
    /\ steps < MaxSteps
    /\ Throws(gameData, action)
    /\ lastAction' = Act("ERROR", action)
    /\ prev' = gameData
    /\ steps' = MaxSteps
    /\ UNCHANGED <<gameData, hostVars, now>>

\* GameView.handleChoiceSelection: an entry with a `text` and without a `choice`
SelectChoice ==
    \E p \in {1, NumIds} : Crash(Act("ADD_LOG_ENTRY", ChoiceSelection(p, "c1", NoChoice)))

\* the clock that Date.now() reads
Tick ==
    /\ steps < MaxSteps
    /\ now < MaxClock
    /\ now' = now + 1
    /\ steps' = steps + 1
    /\ UNCHANGED <<gameData, hostVars, prev, lastAction>>

NextReducer ==
    \/ AddLogEntry \/ ResetStoryLog \/ UpdateCharacter \/ AddCharacter \/ DeleteCharacter
    \/ BatchAddData \/ AddQuest \/ UpdateQuest \/ AddPlayer \/ UpdatePlayer \/ RemovePlayer
    \/ SetPlayers \/ AddAsset \/ BatchAddAssets \/ DeleteAsset \/ SetAssetPublished
    \/ SubmitAsset \/ ApproveAsset \/ RejectAsset \/ AddChatMessage \/ AddLobbyChatMessage
    \/ SetLobbyMusic \/ UpdateTitle \/ UpdateGmRules \/ SetGameData \/ UnknownAction \/ SelectChoice \/ Tick

SpecReducer == InitReducer /\ [][NextReducer]_vars

(* ================= SpecSnapshot: snapshots of the host ================= *)
(* A peer holding some document receives snapshots of the host's document  *)
(* in which any subset of the collections is empty, hence left out.        *)
InitSnapshot ==
    /\ gameData \in {INITIAL_GAME_DATA, SETUP_GAME_DATA, REMOTE_GAME_DATA}
    /\ currentPlayerIndex = 0
    /\ gamePhase = "play"
    /\ gameMode = "local"
    /\ myPlayerId = NoId
    /\ presence = {}
    /\ closure = HostIdle
    /\ stale = FALSE
    /\ now = 1
    /\ prev = gameData
    /\ lastAction = NoAction
    /\ steps = 0
    /\ nextId = NumIds + 1
    /\ store = NoStore
    /\ peer = NoPeer
    /\ wire = NoWire
    /\ view = NoView
    /\ channel = NoChannel

SnapshotArrives ==
    \E S \in SUBSET CollectionFields :
        /\ steps < MaxSnapshots
        /\ Dispatch(Act("SET_GAME_DATA", Wire(Emptied(REMOTE_GAME_DATA, S))))

SpecSnapshot == InitSnapshot /\ [][SnapshotArrives]_vars

(* ==================== SpecAssets: the asset life cycle ================= *)
(* Longer runs of the five asset actions on the set-up document, with the  *)
(* sprite_change entries that show an asset in the story.                  *)
ApplyAsset(action) == steps < MaxAssetOps /\ Dispatch(action)

AssetsAdd ==
    ApplyAsset(Act("ADD_ASSET", [type |-> "characterSprite", isPublished |-> FALSE, publishedSet |-> FALSE]))
AssetsSubmit ==
    \E c \in {"c1", "ghost"} :
        ApplyAsset(Act("SUBMIT_ASSET_FOR_APPROVAL",
                       [type |-> "characterSprite", characterIdToAssign |-> c, submittingPlayerId |-> 1]))
\* the approval rows of the GM menu: one per pending approval whose asset is found
ApprovalShown(i) ==
    \E k \in DOMAIN gameData.assets : gameData.assets[k].id = gameData.pendingAssetApprovals[i].assetId

AssetsApprove ==
    \E i \in DOMAIN gameData.pendingAssetApprovals :
        ApprovalShown(i) /\ ApplyAsset(Act("APPROVE_ASSET", gameData.pendingAssetApprovals[i]))
AssetsReject ==
    \E i \in DOMAIN gameData.pendingAssetApprovals :
        ApprovalShown(i) /\ ApplyAsset(Act("REJECT_ASSET", gameData.pendingAssetApprovals[i]))
AssetsDelete ==
    \E i \in DOMAIN gameData.assets : ApplyAsset(Act("DELETE_ASSET", [id |-> gameData.assets[i].id]))
AssetsShow ==
    \E i \in DOMAIN gameData.assets :
        /\ Len(gameData.storyLog) < MaxShown
        /\ ApplyAsset(Act("ADD_LOG_ENTRY", SpriteChange("c1", gameData.assets[i].id)))
AssetsTick ==
    /\ steps < MaxAssetOps
    /\ now < MaxClock
    /\ now' = now + 1
    /\ steps' = steps + 1
    /\ UNCHANGED <<gameData, hostVars, prev, lastAction>>

NextAssets ==
    \/ AssetsAdd \/ AssetsSubmit \/ AssetsApprove \/ AssetsReject \/ AssetsDelete
    \/ AssetsShow \/ AssetsTick

SpecAssets == InitReducer /\ [][NextAssets]_vars

(* ========================= Spec: the hosting peer ====================== *)
(* closure is what the registered network handlers see: the values of the  *)
(* render in which the effect last ran.  The effect runs again only after  *)
(* one of its dependencies (gameData.players, currentPlayerIndex,          *)
(* gamePhase) has changed; stale says that such a change is pending.       *)
HostId == 1

Snapshot ==
    [currentPlayerIndex |-> currentPlayerIndex, gamePhase |-> gamePhase,
     players |-> gameData.players, storyLogLength |-> Len(gameData.storyLog)]

\* players[i] of a JavaScript array: defined for 0 <= i < length
HasIndex(players, i) == i >= 0 /\ i < Len(players)

\* does the reducer build a new players array for this action?
PlayersRefChanged(state, action) ==
    \/ action.type \in {"UPDATE_PLAYER", "REMOVE_PLAYER", "SET_PLAYERS", "SET_GAME_DATA",
                        "SUBMIT_ASSET_FOR_APPROVAL", "REJECT_ASSET"}
    \/ action.type = "ADD_PLAYER" /\ ~AddPlayerRejected(state.players, action.payload)
    \/ action.type = "ADD_LOG_ENTRY" /\ action.payload.type = "choice_selection"
                                     /\ action.payload.choice.hasEffects
    \/ action.type = "APPROVE_ASSET"
          /\ \E i \in DOMAIN state.characters : state.characters[i].id = action.payload.characterIdToAssign

\* the dispatches of one handler, applied in order
RECURSIVE DispatchAll(_, _, _)
DispatchAll(state, actions, t) ==
    IF actions = <<>> THEN state
    ELSE DispatchAll(gameReducer(state, Head(actions), t), Tail(actions), t)

RECURSIVE AnyPlayersRefChanged(_, _, _)
AnyPlayersRefChanged(state, actions, t) ==
    IF actions = <<>> THEN FALSE
    ELSE \/ PlayersRefChanged(state, Head(actions))
         \/ AnyPlayersRefChanged(gameReducer(state, Head(actions), t), Tail(actions), t)

\* the handler that ran, and the id of the player it removed (if it removed one)
HostOp(type, removed) == [type |-> type, payload |-> removed]

\* one handler run: its dispatches and its setCurrentPlayerIndex
HostRun(op, actions, index) ==
    /\ WithinBounds(DispatchAll(gameData, actions, now))
    /\ gameData' = DispatchAll(gameData, actions, now)
    /\ currentPlayerIndex' = index
    /\ stale' = (stale \/ AnyPlayersRefChanged(gameData, actions, now) \/ index # currentPlayerIndex)
    /\ lastAction' = op
    /\ UNCHANGED now

\* ... as one of the MaxOps handler runs of Spec
HostStep(op, actions, index) ==
    /\ steps < MaxOps
    /\ steps' = steps + 1
    /\ HostRun(op, actions, index)
    /\ UNCHANGED prev

\* the index after the removal, as handleKickPlayer and onPresenceChange compute it
IndexAfterRemoval(prevIndex, removedIndex, playerCount) ==
    LET newPlayerCount == playerCount - 1
    IN  IF newPlayerCount <= 0 THEN 0
        ELSE IF removedIndex < prevIndex THEN prevIndex - 1
        ELSE prevIndex % newPlayerCount

\* the index after handleEndTurn
IndexAfterEndTurn(prevIndex, playerCount) ==
    (prevIndex + 1) % (IF playerCount = 0 THEN 1 ELSE playerCount)

(* The host after setup or at some point of play: n players have joined   *)
(* (in a local game they were entered on the setup screen), the handlers   *)
(* are registered on the current render, nothing is logged yet.            *)
Init ==
    /\ gameMode \in {"local", "online-gm"}
    /\ gamePhase \in {"setup", "play"}
    /\ \E n \in 0..NumIds :
         /\ gameMode = "local" => n >= 1
         /\ gameData = [INITIAL_GAME_DATA EXCEPT
                           !.characters = <<NARRATOR_CHARACTER, HERO_CHARACTER>>,
                           !.players = [i \in 1..n |-> Player(i, NameOfId(i), 0, 0)]]
         /\ myPlayerId \in IF gameMode = "online-gm" /\ n >= 1 THEN {HostId, NoId} ELSE {NoId}
         /\ presence = IF gameMode = "online-gm"
                       THEN {[name |-> NameOfId(i), id |-> i] : i \in 1..n} ELSE {}
         /\ currentPlayerIndex \in IF gamePhase = "play" /\ n >= 1 THEN 0..(n - 1) ELSE {0}
    /\ closure = Snapshot
    /\ stale = FALSE
    /\ now = 1
    /\ prev = INITIAL_GAME_DATA
    /\ lastAction = NoAction
    /\ steps = 0
    /\ nextId = Len(gameData.players) + 1
    /\ store = NoStore
    /\ peer = NoPeer
    /\ wire = NoWire
    /\ view = NoView
    /\ channel = NoChannel

\* the name a joining peer types: its own, or the first player's in other case
JoinNames(id) == {NameOfId(id), [base |-> 1, upper |-> TRUE]}

\* a handler of the host's own UI runs on the latest render, effects included
Rendered == gameMode = "local" \/ ~stale

SystemMessage(text) == ChatMessage(NoId, text)

\* the effect of App re-registers onMessage / onPresenceChange
Reregister ==
    /\ gameMode = "online-gm"
    /\ stale
    /\ closure' = Snapshot
    /\ stale' = FALSE
    /\ lastAction' = HostOp("RERENDER", NoId)
    /\ UNCHANGED <<nextId, gameData, currentPlayerIndex, gamePhase, gameMode, peer, wire, view, channel, store, myPlayerId, presence,
                   now, prev>>

Rerender == Reregister /\ UNCHANGED steps

\* gameData.players.some(p => p.name.toLowerCase() === message.payload.name.toLowerCase())
NameInUse(players, name) ==
    \E i \in DOMAIN players : toLowerCase(players[i].name) = toLowerCase(name)

\* the dispatches of the PLAYER_JOIN_REQUEST branch, for the players and the
\* gamePhase the handler closes over
JoinActions(players, phase, id, name) ==
    IF NameInUse(players, name)
    THEN <<Act("ADD_LOBBY_CHAT_MESSAGE", SystemMessage("name in use"))>>
    ELSE <<Act("ADD_PLAYER", Player(id, name, 0, 0))>>
         \o (IF phase = "play"
             THEN <<Act("ADD_LOG_ENTRY", StatChange(JoinedText(name)))>>
             ELSE <<>>)

\* joinOnlineGameAsPlayer on a peer, and the host's handler for its PLAYER_JOIN_REQUEST
HostRecvJoin ==
    \E name \in JoinNames(nextId) :
      LET id == nextId IN
        /\ gameMode = "online-gm"
        /\ nextId <= NumIds
        /\ nextId' = nextId + 1
        /\ presence' = {e \in presence : e.id # id} \cup {[name |-> name, id |-> id]}
        /\ HostStep(HostOp(IF NameInUse(closure.players, name) THEN "JOIN_REJECTED" ELSE "JOIN", NoId),
                    JoinActions(closure.players, closure.gamePhase, id, name),
                    currentPlayerIndex)
        /\ UNCHANGED <<gamePhase, gameMode, peer, wire, view, channel, store, myPlayerId, closure>>

\* handleEndTurn with the players, index and log of the given render
EndTurnActions(players, index, storyLogLength) ==
    IF HasIndex(players, index)
    THEN <<Act("UPDATE_PLAYER", [players[index + 1] EXCEPT !.lastSeenLogIndex = storyLogLength])>>
    ELSE <<>>

\* the host's handler for END_TURN from the actions inbox
HostRecvEndTurn ==
    /\ gameMode = "online-gm"
    /\ gamePhase = "play"
    /\ HostStep(HostOp("END_TURN", NoId),
                EndTurnActions(closure.players, closure.currentPlayerIndex, closure.storyLogLength),
                IndexAfterEndTurn(currentPlayerIndex, Len(closure.players)))
    /\ UNCHANGED <<nextId, gamePhase, gameMode, peer, wire, view, channel, store, myPlayerId, presence, closure>>

PeerActions == {Act("ADD_LOG_ENTRY", Dialogue("c1"))}

\* the host's handler for DISPATCH_ACTION
HostRecvDispatch ==
    \E action \in PeerActions :
        /\ gameMode = "online-gm"
        /\ gamePhase = "play"
        /\ HostStep(HostOp("DISPATCH_ACTION", NoId), <<action>>, currentPlayerIndex)
        /\ UNCHANGED <<nextId, gamePhase, gameMode, peer, wire, view, channel, store, myPlayerId, presence, closure>>

\* a presence entry disappears (leave, disconnect hook, join timeout) and the
\* host's onPresenceChange handler runs
PresenceRemoved ==
    \E e \in presence :
        /\ gameMode = "online-gm"
        /\ presence' = presence \ {e}
        /\ IF ~\E i \in DOMAIN closure.players : closure.players[i].id = e.id
           THEN /\ steps < MaxOps
                /\ steps' = steps + 1
                /\ lastAction' = HostOp("PRESENCE_IGNORED", NoId)
                /\ UNCHANGED <<gameData, currentPlayerIndex, stale, prev, now>>
           ELSE HostStep(HostOp("PRESENCE_REMOVED", e.id),
                         <<Act("ADD_LOG_ENTRY", StatChange(LeftText(e.name))),
                           Act("REMOVE_PLAYER", [id |-> e.id])>>,
                         IndexAfterRemoval(currentPlayerIndex,
                                           findIndex(closure.players, LAMBDA p : p.id = e.id),
                                           Len(closure.players)))
        /\ UNCHANGED <<nextId, gamePhase, gameMode, peer, wire, view, channel, store, myPlayerId, closure>>

\* handleKickPlayer
KickPlayer ==
    \E i \in DOMAIN gameData.players :
        /\ Rendered
        /\ gameMode = "online-gm"
        /\ HostStep(HostOp("KICK", gameData.players[i].id),
                    <<Act("ADD_LOG_ENTRY", StatChange(KickedText(gameData.players[i].name))),
                      Act("REMOVE_PLAYER", [id |-> gameData.players[i].id])>>,
                    IndexAfterRemoval(currentPlayerIndex, i - 1, Len(gameData.players)))
        /\ UNCHANGED <<nextId, gamePhase, gameMode, peer, wire, view, channel, store, myPlayerId, presence, closure>>

\* the index after handleLeaveGame of the host playing as a player
IndexAfterHostLeave(prevIndex, leavingPlayerIndex, playerCount) ==
    LET newPlayerCount == playerCount - 1
    IN  IF newPlayerCount > 0
        THEN IF leavingPlayerIndex < prevIndex THEN prevIndex - 1 ELSE prevIndex % newPlayerCount
        ELSE 0

\* handleLeaveGame, gameMode 'online-gm' with myPlayerId
HostLeaveGame ==
    \E i \in DOMAIN gameData.players :
        /\ Rendered
        /\ gameMode = "online-gm"
        /\ gamePhase = "play"
        /\ myPlayerId # NoId
        /\ gameData.players[i].id = myPlayerId
        /\ HostStep(HostOp("HOST_LEAVE", myPlayerId),
                    <<Act("ADD_LOG_ENTRY", StatChange(LeftText(gameData.players[i].name))),
                      Act("REMOVE_PLAYER", [id |-> myPlayerId])>>,
                    IndexAfterHostLeave(currentPlayerIndex, i - 1, Len(gameData.players)))
        /\ myPlayerId' = NoId
        /\ UNCHANGED <<nextId, gamePhase, gameMode, peer, wire, view, channel, store, presence, closure>>

\* handleLeaveGame, gameMode 'local': the current player leaves
LocalLeaveGame ==
    /\ Rendered
    /\ gameMode = "local"
    /\ gamePhase = "play"
    /\ HasIndex(gameData.players, currentPlayerIndex)
    /\ LET playerToRemove == gameData.players[currentPlayerIndex + 1]
           newPlayerCount == Len(gameData.players) - 1
       IN  HostStep(HostOp("LOCAL_LEAVE", playerToRemove.id),
                    <<Act("ADD_LOG_ENTRY", StatChange(LeftText(playerToRemove.name))),
                      Act("REMOVE_PLAYER", [id |-> playerToRemove.id])>>,
                    currentPlayerIndex % (IF newPlayerCount = 0 THEN 1 ELSE newPlayerCount))
    /\ UNCHANGED <<nextId, gamePhase, gameMode, peer, wire, view, channel, store, myPlayerId, presence, closure>>

\* GMMenu.removePlayer
GMRemovePlayer ==
    \E i \in DOMAIN gameData.players :
        /\ Rendered
        /\ gamePhase = "play"
        /\ HostStep(HostOp("GM_REMOVE", gameData.players[i].id),
                    <<Act("ADD_LOG_ENTRY", StatChange(LeftText(gameData.players[i].name))),
                      Act("REMOVE_PLAYER", [id |-> gameData.players[i].id])>>,
                    currentPlayerIndex)
        /\ UNCHANGED <<nextId, gamePhase, gameMode, peer, wire, view, channel, store, myPlayerId, presence, closure>>

\* GameView.handleEndTurn in a local game: the staged entries, then App.handleEndTurn
\* with the values of the render in which the button was drawn
StagedInputs == {<<>>, <<Dialogue("c1")>>}
LocalEndTurn ==
    \E staged \in StagedInputs :
        /\ Rendered
        /\ gameMode = "local"
        /\ gamePhase = "play"
        /\ Len(gameData.players) > 0
        /\ HostStep(HostOp("LOCAL_END_TURN", NoId),
                    [i \in DOMAIN staged |-> Act("ADD_LOG_ENTRY", staged[i])]
                    \o EndTurnActions(gameData.players, currentPlayerIndex, Len(gameData.storyLog)),
                    IndexAfterEndTurn(currentPlayerIndex, Len(gameData.players)))
        /\ UNCHANGED <<nextId, gamePhase, gameMode, peer, wire, view, channel, store, myPlayerId, presence, closure>>

\* dispatch({ type: 'RESET_STORY_LOG' }) by the host
HostResetStoryLog ==
    /\ Rendered
    /\ gameData.storyLog # <<>>
    /\ HostStep(HostOp("RESET_STORY_LOG", NoId), <<Act("RESET_STORY_LOG", NoId)>>, currentPlayerIndex)
    /\ UNCHANGED <<nextId, gamePhase, gameMode, peer, wire, view, channel, store, myPlayerId, presence, closure>>

\* startGame
StartGame ==
    /\ Rendered
    /\ gamePhase = "setup"
    /\ Len(gameData.characters) > 1
    /\ gamePhase' = "play"
    /\ currentPlayerIndex' = 0
    /\ stale' = TRUE
    /\ steps < MaxOps
    /\ steps' = steps + 1
    /\ lastAction' = HostOp("START_GAME", NoId)
    /\ UNCHANGED <<nextId, gameData, gameMode, peer, wire, view, channel, store, myPlayerId, presence, closure, now, prev>>

Next ==
    \/ Rerender \/ HostRecvJoin \/ HostRecvEndTurn \/ HostRecvDispatch \/ PresenceRemoved
    \/ KickPlayer \/ HostLeaveGame \/ LocalLeaveGame \/ GMRemovePlayer
    \/ LocalEndTurn \/ HostResetStoryLog \/ StartGame

Spec == Init /\ [][Next]_vars

(* ================= SpecLobby: the roster of a hosted game ============== *)
(* The host after hostOnlineGame without a player of its own: an empty     *)
(* roster.  Peers send PLAYER_JOIN_REQUEST, the host dispatches roster     *)
(* actions itself, the game may start.  steps counts the handler runs      *)
(* since the handlers were last registered (at most MaxBurst), lastAction  *)
(* is what the last handler run handled.                                   *)
InitLobby ==
    /\ gameMode = "online-gm"
    /\ gamePhase = "setup"
    /\ gameData = [INITIAL_GAME_DATA EXCEPT !.characters = <<NARRATOR_CHARACTER, HERO_CHARACTER>>]
    /\ currentPlayerIndex = 0
    /\ myPlayerId = NoId
    /\ presence = {}
    /\ closure = Snapshot
    /\ stale = FALSE
    /\ now = 1
    /\ prev = gameData
    /\ lastAction = NoAction
    /\ steps = 0
    /\ nextId = 1
    /\ store = NoStore
    /\ peer = NoPeer
    /\ wire = NoWire
    /\ view = NoView
    /\ channel = NoChannel

\* a handler run of the lobby
LobbyRun(op, actions) ==
    /\ HostRun(op, actions, currentPlayerIndex)
    /\ steps' = IF stale' THEN steps + 1 ELSE 0
    /\ UNCHANGED <<gamePhase, gameMode, peer, wire, view, channel, store, myPlayerId, presence, closure, prev>>

LobbyRerender == Reregister /\ steps' = 0

\* the host's handler for a PLAYER_JOIN_REQUEST of a new peer
LobbyRecvJoin ==
    \E name \in JoinNames(nextId) :
        /\ nextId <= MaxJoinIds
        /\ steps < MaxBurst
        /\ nextId' = nextId + 1
        /\ LobbyRun(Act(IF NameInUse(closure.players, name) THEN "JOIN_REJECTED" ELSE "JOIN",
                        [name |-> name, id |-> nextId]),
                    JoinActions(closure.players, closure.gamePhase, nextId, name))

\* dispatch({ type: 'ADD_PLAYER', ... }) on the host: a new id, or the id of the
\* first player
LobbyAddPlayer ==
    \E id \in {nextId} \cup {gameData.players[i].id : i \in DOMAIN gameData.players \cap {1}} :
        /\ Rendered
        /\ id <= MaxJoinIds
        /\ nextId' = IF id = nextId THEN nextId + 1 ELSE nextId
        /\ LobbyRun(Act("ADD_PLAYER", Player(id, NameOfId(id), 0, 0)),
                    <<Act("ADD_PLAYER", Player(id, NameOfId(id), 0, 0))>>)

\* GMMenu.handlePlayerUpdate(id, 'coins', value)
LobbyUpdatePlayer ==
    \E i \in DOMAIN gameData.players, c \in 0..1 :
        /\ Rendered
        /\ i = 1
        /\ LobbyRun(Act("UPDATE_PLAYER", [gameData.players[i] EXCEPT !.coins = c]),
                    <<Act("UPDATE_PLAYER", [gameData.players[i] EXCEPT !.coins = c])>>)
        /\ UNCHANGED nextId

\* dispatch({ type: 'REMOVE_PLAYER', ... }) on the host: the first player, or an
\* id that is not in the roster
LobbyRemovePlayer ==
    \E id \in {nextId} \cup {gameData.players[i].id : i \in DOMAIN gameData.players \cap {1}} :
        /\ Rendered
        /\ LobbyRun(Act("REMOVE_PLAYER", [id |-> id]), <<Act("REMOVE_PLAYER", [id |-> id])>>)
        /\ UNCHANGED nextId

NextLobby ==
    \/ LobbyRerender \/ LobbyRecvJoin \/ LobbyAddPlayer \/ LobbyUpdatePlayer
    \/ LobbyRemovePlayer \/ StartGame

SpecLobby == InitLobby /\ [][NextLobby]_vars

(* ============== SpecRejoin: the host leaves and rejoins ================ *)
(* store.actions is games/{gameId}/actions: every message a peer has       *)
(* pushed, in order; nothing removes a message the host has handled.       *)
(* store.state is games/{gameId}/state, written by the host's sync effect. *)
Message(type, action, id, name) == [name |-> name, type |-> type, id |-> id, action |-> action]

\* what the host's render holds and writes to the store
HostState == [gameData |-> gameData, currentPlayerIndex |-> currentPlayerIndex, gamePhase |-> gamePhase]

\* onMessage: the dispatches and the index for one message, for the render c
\* the handler closes over
MessageActions(m, c) ==
    CASE m.type = "PLAYER_JOIN_REQUEST" -> JoinActions(c.players, c.gamePhase, m.id, m.name)
      [] m.type = "DISPATCH_ACTION" -> <<m.action>>
      [] m.type = "END_TURN" -> EndTurnActions(c.players, c.currentPlayerIndex, c.storyLogLength)
MessageIndex(m, c, index) ==
    IF m.type = "END_TURN" THEN IndexAfterEndTurn(index, Len(c.players)) ELSE index

\* child_added fires once for every message already in the inbox
RECURSIVE Replay(_, _, _, _, _)
Replay(state, index, messages, c, t) ==
    IF messages = <<>> THEN [gameData |-> state, currentPlayerIndex |-> index]
    ELSE Replay(DispatchAll(state, MessageActions(Head(messages), c), t),
                MessageIndex(Head(messages), c, index), Tail(messages), c, t)

InitRejoin ==
    /\ gameData = SETUP_GAME_DATA
    /\ currentPlayerIndex = 0
    /\ gamePhase = "play"
    /\ gameMode = "online-gm"
    /\ myPlayerId = NoId
    /\ presence = {}
    /\ closure = Snapshot
    /\ stale = FALSE
    /\ now = 1
    /\ prev = gameData
    /\ lastAction = NoAction
    /\ steps = 0
    /\ nextId = NumIds
    /\ store = [state |-> HostState, actions |-> <<>>]
    /\ peer = NoPeer
    /\ wire = NoWire
    /\ view = NoView
    /\ channel = NoChannel

\* a peer pushes a message and the host's handler runs on it
RejoinDeliver ==
    \E m \in {Message("END_TURN", NoAction, NoId, HostName),
               Message("DISPATCH_ACTION", Act("ADD_LOG_ENTRY", Dialogue("c1")), NoId, HostName),
               Message("PLAYER_JOIN_REQUEST", NoAction, nextId, NameOfId(nextId))} :
        /\ Len(store.actions) < MaxInbox
        /\ m.type = "PLAYER_JOIN_REQUEST" => nextId <= NumIds
        /\ nextId' = IF m.type = "PLAYER_JOIN_REQUEST" THEN nextId + 1 ELSE nextId
        /\ store' = [store EXCEPT !.actions = Append(@, m)]
        /\ HostRun(HostOp(m.type, NoId), MessageActions(m, closure),
                   MessageIndex(m, closure, currentPlayerIndex))
        /\ prev' = gameData
        /\ UNCHANGED <<gamePhase, gameMode, peer, wire, view, channel, myPlayerId, presence, closure, steps>>

\* the host renders: the sync effect writes the state, and the handler is
\* registered again if one of its dependencies has changed
RejoinRender ==
    /\ stale \/ store.state # HostState
    /\ store' = [store EXCEPT !.state = HostState]
    /\ closure' = IF stale THEN Snapshot ELSE closure
    /\ stale' = FALSE
    /\ lastAction' = HostOp("RERENDER", NoId)
    /\ UNCHANGED <<gameData, currentPlayerIndex, gamePhase, gameMode, peer, wire, view, channel, myPlayerId, presence,
                   now, prev, steps, nextId>>

\* handleRejoinSession of the host, after it has left with everything
\* written: the snapshot is loaded, then createGameChannel subscribes to the
\* inbox and the handler of the new render gets every message in it
RejoinSession ==
    LET data == ReduceSetGameData(Wire(store.state.gameData))
        c == [currentPlayerIndex |-> store.state.currentPlayerIndex, gamePhase |-> store.state.gamePhase,
              players |-> data.players,
              storyLogLength |-> Len(data.storyLog)]
        r == Replay(data, store.state.currentPlayerIndex, store.actions, c, now)
    IN  /\ ~stale
        /\ store.state = HostState
        /\ steps < MaxRejoins
        /\ steps' = steps + 1
        /\ WithinBounds(r.gameData)
        /\ gameData' = r.gameData
        /\ currentPlayerIndex' = r.currentPlayerIndex
        /\ gamePhase' = store.state.gamePhase
        /\ closure' = c
        /\ stale' = (r.gameData.players # data.players
                      \/ r.currentPlayerIndex # store.state.currentPlayerIndex)
        /\ prev' = gameData
        /\ lastAction' = HostOp("REJOIN", NoId)
        /\ UNCHANGED <<gameMode, peer, wire, view, channel, store, myPlayerId, presence, now, nextId>>

NextRejoin == RejoinDeliver \/ RejoinRender \/ RejoinSession

SpecRejoin == InitRejoin /\ [][NextRejoin]_vars

(* ================= SpecPeer: a peer joins a hosted game ================ *)
(* The host of SpecRejoin and one more App, the peer with session id       *)
(* PeerId.  The two meet in the store only: the peer pushes to the inbox   *)
(* and keeps a presence entry, the host writes the state path.  Each       *)
(* listener gets its events in its own time (wire).                        *)
PeerId == NumIds
PeerEntry == [name |-> NameOfId(PeerId), id |-> PeerId]

hostSide == <<gameData, currentPlayerIndex, gamePhase, gameMode, myPlayerId, closure, stale>>

InitPeer ==
    /\ gameData = SETUP_GAME_DATA
    /\ currentPlayerIndex = 0
    /\ gamePhase \in {"setup", "play"}
    /\ gameMode = "online-gm"
    /\ myPlayerId = NoId
    /\ presence = {[name |-> NameOfId(i), id |-> i] : i \in {1, 2}}
    /\ closure = Snapshot
    /\ stale = FALSE
    /\ now = 1
    /\ prev = INITIAL_GAME_DATA
    /\ lastAction = NoAction
    /\ steps = 0
    /\ nextId = NumIds + 1
    /\ store = [state |-> HostState, actions |-> <<>>]
    /\ peer = NoPeer
    /\ wire = NoWire
    /\ view = NoView
    /\ channel = NoChannel

\* joinOnlineGameAsPlayer
PeerJoin ==
    /\ peer.mode = "none"
    /\ Len(store.actions) < MaxInbox
    /\ Len(SelectSeq(store.actions, LAMBDA m : m.type = "PLAYER_JOIN_REQUEST")) < MaxJoins
    /\ peer' = [peer EXCEPT !.mode = "online-player", !.myPlayerId = PeerId,
                            !.subscribed = TRUE, !.hook = TRUE,
                            !.connectionStatus = "connecting", !.timer = TRUE]
    /\ presence' = presence \cup {PeerEntry}
    /\ store' = [store EXCEPT !.actions =
                     Append(@, Message("PLAYER_JOIN_REQUEST", NoAction, PeerId, PeerEntry.name))]
    /\ wire' = [wire EXCEPT !.fresh = TRUE]
    /\ lastAction' = HostOp("PEER_JOIN", PeerId)
    /\ UNCHANGED <<hostSide, now, prev, steps, nextId, view, channel>>

\* a timer that keeps running after a sync
TimerKept(timer) == timer

\* clearTimeout(connectionTimeoutRef.current) at the head of the sync handler
TimerAfterSync(timer) == FALSE

\* a sync handler that keeps the index of the local view
SyncedViewKeepingIndex(local, payload) ==
    [gameData |-> ReduceSetGameData(Wire(payload.gameData)),
     currentPlayerIndex |-> local.currentPlayerIndex,
     gamePhase |-> payload.gamePhase]

\* what the sync handler sets: SET_GAME_DATA, setCurrentPlayerIndex, setGamePhase
SyncedView(local, payload) ==
    [gameData |-> ReduceSetGameData(Wire(payload.gameData)),
     currentPlayerIndex |-> payload.currentPlayerIndex,
     gamePhase |-> payload.gamePhase]

\* myPlayerId && !newGameData.players.some(p => p.id === myPlayerId)
MissingFromRoster(id, payload) ==
    /\ id # NoId
    /\ ~\E i \in DOMAIN payload.gameData.players : payload.gameData.players[i].id = id

\* a kick that leaves the listeners attached
KeepChannel(p) == p

\* closeChannel: the listeners are detached and the disconnect hook is
\* cancelled; the presence entry is left in place
CloseChannel(p) == [p EXCEPT !.subscribed = FALSE, !.hook = FALSE]

\* the peer's handler for GAME_STATE_SYNC, on the value of the state path
PeerHandleSync ==
    /\ peer.mode = "online-player"
    /\ peer.subscribed
    /\ wire.fresh
    /\ wire' = [wire EXCEPT !.fresh = FALSE]
    /\ peer' = IF MissingFromRoster(peer.myPlayerId, store.state)
               THEN CloseChannel([peer EXCEPT !.timer = TimerAfterSync(@),
                                              !.connectionStatus = "connected",
                                              !.isKicked = TRUE])
               ELSE LET v == SyncedView(peer, store.state)
                    IN  [peer EXCEPT !.timer = TimerAfterSync(@), !.connectionStatus = "connected",
                                     !.gameData = v.gameData,
                                     !.currentPlayerIndex = v.currentPlayerIndex,
                                     !.gamePhase = v.gamePhase]
    /\ prev' = peer.gameData
    /\ lastAction' = HostOp("SYNC", peer.myPlayerId)
    /\ UNCHANGED <<hostSide, presence, store, now, steps, nextId, view, channel>>

\* the join timer fires: setConnectionStatus('failed'), removePresence
PeerTimeout ==
    /\ peer.timer
    /\ peer' = [peer EXCEPT !.timer = FALSE, !.connectionStatus = "failed", !.hook = FALSE]
    /\ presence' = presence \ {PeerEntry}
    /\ wire' = IF PeerEntry \in presence THEN [wire EXCEPT !.removed = Append(@, PeerEntry)] ELSE wire
    /\ lastAction' = HostOp("JOIN_TIMEOUT", PeerId)
    /\ UNCHANGED <<hostSide, store, now, prev, steps, nextId, view, channel>>

\* onlineDispatch: the local view after a dispatch
OnlineDispatch(mode, local, action, t) ==
    IF mode = "online-player" THEN local ELSE gameReducer(local, action, t)

\* GameView of a connected peer dispatches through onlineDispatch
PeerDispatch ==
    \E action \in PeerActions :
        /\ peer.mode = "online-player"
        /\ peer.connectionStatus = "connected"
        /\ ~peer.isKicked
        /\ peer.gamePhase = "play"
        /\ Len(store.actions) < MaxInbox
        /\ peer' = [peer EXCEPT !.gameData = OnlineDispatch(peer.mode, @, action, now)]
        /\ store' = [store EXCEPT !.actions = Append(@, Message("DISPATCH_ACTION", action, NoId, HostName))]
        /\ lastAction' = HostOp("PEER_DISPATCH", peer.myPlayerId)
        /\ UNCHANGED <<hostSide, presence, wire, now, prev, steps, nextId, view, channel>>

\* handleEndTurn in gameMode 'online-player'
PeerEndTurn ==
    /\ peer.mode = "online-player"
    /\ peer.connectionStatus = "connected"
    /\ ~peer.isKicked
    /\ peer.gamePhase = "play"
    /\ Len(store.actions) < MaxInbox
    /\ store' = [store EXCEPT !.actions = Append(@, Message("END_TURN", NoAction, NoId, HostName))]
    /\ lastAction' = HostOp("PEER_END_TURN", peer.myPlayerId)
    /\ UNCHANGED <<hostSide, presence, peer, wire, now, prev, steps, nextId, view, channel>>

\* a connected peer of a game still in setup is shown SetupView, whose
\* GameSetup is given the reducer's own dispatch: the rules textarea
PeerLobbyEdit ==
    /\ peer.mode = "online-player"
    /\ peer.connectionStatus = "connected"
    /\ ~peer.isKicked
    /\ peer.gamePhase = "setup"
    /\ peer.gameData.gmRules # "house rules"
    /\ peer' = [peer EXCEPT !.gameData = gameReducer(@, Act("UPDATE_GM_RULES", "house rules"), now)]
    /\ lastAction' = HostOp("PEER_LOBBY_EDIT", peer.myPlayerId)
    /\ UNCHANGED <<hostSide, presence, store, wire, now, prev, steps, nextId, view, channel>>

\* handleLeaveGame in gameMode 'online-player': removePresence, then reload
PeerLeave ==
    /\ peer.mode = "online-player"
    /\ peer.connectionStatus = "connected"
    /\ ~peer.isKicked
    /\ peer.gamePhase = "play"
    /\ peer' = NoPeer
    /\ presence' = presence \ {PeerEntry}
    /\ wire' = [wire EXCEPT !.fresh = FALSE,
                            !.removed = IF PeerEntry \in presence THEN Append(@, PeerEntry) ELSE @]
    /\ lastAction' = HostOp("PEER_LEAVE", PeerId)
    /\ UNCHANGED <<hostSide, store, now, prev, steps, nextId, view, channel>>

\* 'Return to Menu' of the kicked and of the failed screen: window.location.reload()
PeerReload ==
    /\ peer.isKicked \/ peer.connectionStatus = "failed"
    /\ peer' = NoPeer
    /\ presence' = IF peer.hook THEN presence \ {PeerEntry} ELSE presence
    /\ wire' = [wire EXCEPT !.fresh = FALSE,
                            !.removed = IF peer.hook /\ PeerEntry \in presence
                                        THEN Append(@, PeerEntry) ELSE @]
    /\ lastAction' = HostOp("RELOAD", PeerId)
    /\ UNCHANGED <<hostSide, store, now, prev, steps, nextId, view, channel>>

\* the host's listener delivers the next message of the inbox to onMessage
HostDeliver ==
    /\ wire.handled < Len(store.actions)
    /\ LET m == store.actions[wire.handled + 1]
       IN  HostRun(HostOp(m.type, m.id), MessageActions(m, closure),
                   MessageIndex(m, closure, currentPlayerIndex))
    /\ wire' = [wire EXCEPT !.handled = @ + 1]
    /\ UNCHANGED <<gamePhase, gameMode, myPlayerId, closure, presence, store, peer, prev,
                   steps, nextId, view, channel>>

\* the host's onPresenceChange handler is told of a removed presence entry
HostPresenceRemoved ==
    /\ wire.removed # <<>>
    /\ LET e == Head(wire.removed)
       IN  IF ~\E i \in DOMAIN closure.players : closure.players[i].id = e.id
           THEN /\ lastAction' = HostOp("PRESENCE_IGNORED", e.id)
                /\ UNCHANGED <<gameData, currentPlayerIndex, stale, now>>
           ELSE HostRun(HostOp("PRESENCE_REMOVED", e.id),
                        <<Act("ADD_LOG_ENTRY", StatChange(LeftText(e.name))),
                          Act("REMOVE_PLAYER", [id |-> e.id])>>,
                        IndexAfterRemoval(currentPlayerIndex,
                                          findIndex(closure.players, LAMBDA p : p.id = e.id),
                                          Len(closure.players)))
    /\ wire' = [wire EXCEPT !.removed = Tail(@)]
    /\ UNCHANGED <<gamePhase, gameMode, myPlayerId, closure, presence, store, peer, prev,
                   steps, nextId, view, channel>>

\* handleKickPlayer on the peer
HostKickPeer ==
    \E i \in DOMAIN gameData.players :
        /\ ~stale
        /\ gameData.players[i].id = PeerId
        /\ HostRun(HostOp("KICK", PeerId),
                   <<Act("ADD_LOG_ENTRY", StatChange(KickedText(gameData.players[i].name))),
                     Act("REMOVE_PLAYER", [id |-> PeerId])>>,
                   IndexAfterRemoval(currentPlayerIndex, i - 1, Len(gameData.players)))
        /\ UNCHANGED <<gamePhase, gameMode, myPlayerId, closure, presence, store, peer, wire,
                       prev, steps, nextId, view, channel>>

\* the host renders: the handlers are registered again if a dependency has
\* changed, and the sync effect writes the state path
HostSync ==
    /\ stale \/ store.state # HostState
    /\ store' = [store EXCEPT !.state = HostState]
    /\ closure' = IF stale THEN Snapshot ELSE closure
    /\ stale' = FALSE
    /\ wire' = [wire EXCEPT !.fresh = @ \/ (peer.subscribed /\ store.state # HostState)]
    /\ lastAction' = HostOp("RERENDER", NoId)
    /\ UNCHANGED <<gameData, currentPlayerIndex, gamePhase, gameMode, myPlayerId, presence,
                   peer, now, prev, steps, nextId, view, channel>>

NextPeer ==
    \/ PeerJoin \/ PeerHandleSync \/ PeerTimeout \/ PeerDispatch \/ PeerEndTurn \/ PeerLeave
    \/ PeerReload \/ PeerLobbyEdit \/ HostDeliver \/ HostPresenceRemoved \/ HostKickPeer \/ HostSync

SpecPeer == InitPeer /\ [][NextPeer]_vars

\* ... with a transport that keeps delivering (the inbox, the presence
\* events, the latest value of the state path) and a host that renders
\* after every change of its state
SpecPeerLive ==
    /\ SpecPeer
    /\ WF_vars(HostSync)
    /\ WF_vars(PeerHandleSync)
    /\ WF_vars(HostDeliver)
    /\ WF_vars(HostPresenceRemoved)

(* ============== SpecPlayback: the scene of GameView ==================== *)
(* One GameView, of a local game or of a peer (gameMode 'online-player',   *)
(* gameData being the peer's synced copy).  The story log is a script of   *)
(* at most MaxScript entries over two assets, of which "asset-2" may be    *)
(* missing from the asset table.                                           *)
BackgroundChange(a) == Entry("background_change", NoChar, a, NoId, NoChoice, NoText)
CgShow(a) == Entry("cg_show", NoChar, a, NoId, NoChoice, NoText)
DiceRoll == Entry("dice_roll", "c1", NoAsset, NoId, NoChoice, NoText)

ScriptEntries ==
    {BackgroundChange(AssetId(2)), SpriteChange("c1", AssetId(1)), CgShow(AssetId(1)),
     Dialogue("c1"), ChoiceSelection(1, "c1", PlainChoice), ChoiceEntry}

\* what is written while GameView is mounted
NewEntries == {BackgroundChange(AssetId(2)), CgShow(AssetId(1)), Dialogue("c1")}

\* the log when GameView is mounted; it grows to MaxScript entries afterwards
Scripts == UNION {[1..n -> ScriptEntries] : n \in 0..(MaxScript - 1)}

\* gameData.assets.find(a => a.id === id)?.url || null
findAssetUrl(assets, id) ==
    IF \E i \in DOMAIN assets : assets[i].id = id THEN "url-of-" \o id ELSE "null"

reduceScene(assets, log, currentScene) ==
    CASE log.type = "background_change" ->
             [currentScene EXCEPT !.backgroundUrl = findAssetUrl(assets, log.assetId)]
      [] log.type = "sprite_change" ->
             [currentScene EXCEPT !.sprites[log.characterId] = log.assetId]
      [] log.type = "cg_show" ->
             [currentScene EXCEPT !.cgUrl = findAssetUrl(assets, log.assetId)]
      [] OTHER -> currentScene

\* for (const log of logs) scene = reduceScene(log, scene)
RECURSIVE FoldScene(_, _, _)
FoldScene(assets, logs, scene) ==
    IF logs = <<>> THEN scene
    ELSE FoldScene(assets, Tail(logs), reduceScene(assets, Head(logs), scene))

\* storyLog.slice(from, to), with 0-based bounds
Slice(log, from, to) == SubSeq(log, from + 1, IF to > Len(log) THEN Len(log) ELSE to)

\* a catch-up that folds on top of the scene it finds
HeldScene(held) == held

\* let initialSceneState = { backgroundUrl: null, cgUrl: null, sprites: {}, dialogue: null }
InitialSceneState(held) == EmptyScene

\* the player whose lastSeenLogIndex the catch-up reads
LastSeenIndex(mode, players, index, me) ==
    IF mode = "online-player"
    THEN IF \E i \in DOMAIN players : players[i].id = me
         THEN players[CHOOSE i \in DOMAIN players : players[i].id = me].lastSeenLogIndex
         ELSE 0
    ELSE IF HasIndex(players, index) THEN players[index + 1].lastSeenLogIndex ELSE 0

\* the catch-up effect, run with turnStarted.current false
CatchUp(v, data, lastSeenIndex) ==
    LET logsForCatchUp == Slice(data.storyLog, lastSeenIndex, Len(data.storyLog))
        playing == logsForCatchUp # <<>>
    IN  [v EXCEPT !.turnStarted = TRUE,
                  !.replaced = v.baseScene,
                  !.baseScene = FoldScene(data.assets, Slice(data.storyLog, 0, lastSeenIndex),
                                          InitialSceneState(v.baseScene)),
                  !.logsToPlay = logsForCatchUp,
                  !.playbackLogIndex = IF playing THEN 0 ELSE @,
                  !.playbackState = IF playing THEN "playing" ELSE "idle",
                  !.effect = playing]

\* the loop of the playback effect: the index at which the beat from i stops
RECURSIVE BeatEnd(_, _)
BeatEnd(logs, i) ==
    IF i >= Len(logs) THEN i
    ELSE IF logs[i + 1].type \in {"dialogue", "choice_selection", "choice"} THEN i
    ELSE BeatEnd(logs, i + 1)

\* { characterName: char?.name || 'Unknown', text: log.text }
DialogueOf(characters, log) ==
    [text |-> log.text,
     characterName |->
         IF \E i \in DOMAIN characters : characters[i].id = log.characterId
         THEN characters[CHOOSE i \in DOMAIN characters : characters[i].id = log.characterId].name
         ELSE "Unknown"]

\* an end of playback that keeps the scene of the last beat
ShownScene(assets, logs, scene) == scene

\* let finalScene = {...prev}; logsToPlay.forEach(log => finalScene = reduceScene(log, finalScene))
FinalScene(assets, logs, scene) == FoldScene(assets, logs, scene)

\* the playback effect
PlaybackEffect(v, data) ==
    IF v.playbackLogIndex >= Len(v.logsToPlay)
    THEN [v EXCEPT !.baseScene = [FinalScene(data.assets, v.logsToPlay, @)
                                     EXCEPT !.dialogue = NoDialogue],
                   !.playbackState = "idle",
                   !.logsToPlay = <<>>,
                   !.effect = FALSE]
    ELSE LET end == BeatEnd(v.logsToPlay, v.playbackLogIndex)
             sceneUpdate == FoldScene(data.assets,
                                      Slice(v.logsToPlay, v.playbackLogIndex, end), v.baseScene)
             dialogueToShow ==
                 IF end < Len(v.logsToPlay)
                    /\ v.logsToPlay[end + 1].type \in {"dialogue", "choice_selection"}
                 THEN DialogueOf(data.characters, v.logsToPlay[end + 1])
                 ELSE NoDialogue
         IN  [v EXCEPT !.baseScene = [sceneUpdate EXCEPT !.dialogue = dialogueToShow],
                       !.effect = FALSE]

\* the loop of handlePlaybackAdvance
RECURSIVE NextIndex(_, _)
NextIndex(logs, i) ==
    IF i >= Len(logs) - 1 THEN i
    ELSE IF logs[i + 1].type \in {"dialogue", "choice", "choice_selection"} THEN i
    ELSE NextIndex(logs, i + 1)

playVars == <<currentPlayerIndex, gamePhase, gameMode, myPlayerId, presence, closure, stale,
              now, prev, steps, nextId, store, peer, wire, channel>>

InitPlayback ==
    /\ gameMode \in {"local", "online-player"}
    /\ gamePhase = "play"
    /\ currentPlayerIndex = 0
    /\ myPlayerId = IF gameMode = "online-player" THEN 1 ELSE NoId
    /\ \E script \in Scripts, seen \in 0..MaxScript, both \in BOOLEAN :
           /\ seen <= Len(script)
           /\ gameData = [SETUP_GAME_DATA EXCEPT
                             !.storyLog = script,
                             !.assets = IF both
                                        THEN <<Asset(AssetId(1), "background", TRUE),
                                               Asset(AssetId(2), "background", TRUE)>>
                                        ELSE <<Asset(AssetId(1), "background", TRUE)>>,
                             !.players[1].lastSeenLogIndex = seen]
    /\ presence = {}
    /\ closure = HostIdle
    /\ stale = FALSE
    /\ now = 1
    /\ prev = INITIAL_GAME_DATA
    /\ lastAction = NoAction
    /\ steps = 0
    /\ nextId = NumIds + 1
    /\ store = NoStore
    /\ peer = NoPeer
    /\ wire = NoWire
    /\ view = NoView
    /\ channel = NoChannel

\* GameView is mounted: the catch-up effect runs for the first time
Mount ==
    /\ ~view.turnStarted
    /\ view' = CatchUp(view, gameData,
                       LastSeenIndex(gameMode, gameData.players, currentPlayerIndex, myPlayerId))
    /\ lastAction' = HostOp("MOUNT", NoId)
    /\ UNCHANGED <<gameData, playVars>>

\* the playback effect runs after a render that changed one of its dependencies
ShowBeat ==
    /\ view.turnStarted
    /\ view.effect
    /\ view.playbackState = "playing"
    /\ view' = PlaybackEffect(view, gameData)
    /\ lastAction' = HostOp("PLAYBACK_EFFECT", NoId)
    /\ UNCHANGED <<gameData, playVars>>

\* handlePlaybackAdvance: a click on the visuals
Advance ==
    /\ view.turnStarted
    /\ view.playbackState = "playing"
    /\ view.playbackLogIndex < Len(view.logsToPlay)
    /\ view' = [view EXCEPT !.playbackLogIndex = NextIndex(view.logsToPlay, @) + 1,
                            !.effect = TRUE]
    /\ lastAction' = HostOp("ADVANCE", NoId)
    /\ UNCHANGED <<gameData, playVars>>

\* a peer handles a GAME_STATE_SYNC: every object of gameData is a new one,
\* currentPlayer with them, so turnStarted is reset and the catch-up runs
PlaybackSync ==
    \E log \in {gameData.storyLog} \cup {Append(gameData.storyLog, e) : e \in NewEntries} :
        /\ view.turnStarted
        /\ gameMode = "online-player"
        /\ Len(log) <= MaxScript
        /\ gameData' = ReduceSetGameData(Wire([gameData EXCEPT !.storyLog = log]))
        /\ view' = CatchUp([view EXCEPT !.turnStarted = FALSE], gameData',
                           LastSeenIndex(gameMode, gameData'.players, currentPlayerIndex, myPlayerId))
        /\ lastAction' = HostOp("SYNC", myPlayerId)
        /\ UNCHANGED playVars

\* local game, handleDiceRoll: the current player adds an entry;
\* currentPlayer is the same object, the catch-up effect returns at once
PlaybackAddEntry ==
    /\ view.turnStarted
    /\ gameMode = "local"
    /\ Len(gameData.storyLog) < MaxScript
    /\ gameData' = gameReducer(gameData, Act("ADD_LOG_ENTRY", DiceRoll), now)
    /\ lastAction' = HostOp("ADD_LOG_ENTRY", NoId)
    /\ UNCHANGED <<view, playVars>>

\* local game: handleEndTurn of the action panel adds the entries written
\* this turn, if any, and calls onEndTurn, whose closure holds the log as it
\* was; then the effects of GameView run for the next player
PlaybackEndTurn ==
    /\ view.turnStarted
    /\ gameMode = "local"
    /\ \E logsToDispatch \in {<<>>} \cup {<<e>> : e \in NewEntries} :
           LET actions ==
                   SeqMap(logsToDispatch, LAMBDA e : Act("ADD_LOG_ENTRY", e))
                   \o EndTurnActions(gameData.players, currentPlayerIndex, Len(gameData.storyLog))
               index == IndexAfterEndTurn(currentPlayerIndex, Len(gameData.players))
           IN  /\ Len(gameData.storyLog) + Len(logsToDispatch) <= MaxScript
               /\ gameData' = DispatchAll(gameData, actions, now)
               /\ currentPlayerIndex' = index
               /\ view' = CatchUp([view EXCEPT !.turnStarted = FALSE], gameData',
                                  LastSeenIndex(gameMode, gameData'.players, index, myPlayerId))
    /\ lastAction' = HostOp("END_TURN", NoId)
    /\ UNCHANGED <<gamePhase, gameMode, myPlayerId, presence, closure, stale,
                   now, prev, steps, nextId, store, peer, wire, channel>>

NextPlayback ==
    Mount \/ ShowBeat \/ Advance \/ PlaybackSync \/ PlaybackAddEntry \/ PlaybackEndTurn

SpecPlayback == InitPlayback /\ [][NextPlayback]_vars

(* ============ SpecMusic: the state path and the music path ============= *)
(* The host of a game in the lobby and the channel of one peer.  Every     *)
(* change of the host's gameData is followed by the sync effect, whose     *)
(* sendMessage writes games/{id}/state and then games/{id}/music; the      *)
(* peer's joinGameChannel listens to the two paths with two listeners that *)
(* share mainState and musicData.                                          *)
MusicUrls == {"null", "music-1", "music-2"}
GmRules == {"rules A", "rules B"}

\* the payload of the sync effect
SyncPayload(data, index, phase) ==
    [gameData |-> data, currentPlayerIndex |-> index, gamePhase |-> phase, players |-> data.players]

\* a string as a condition
TruthyUrl(url) == url # "null" /\ url # ""

\* a split that leaves the music in the main state
WholeGameData(data) == data

\* const { lobbyMusicUrl, ...restOfGameData } = gameData
RestOfGameData(data) == [f \in DOMAIN data \ {"lobbyMusicUrl"} |-> data[f]]

\* sendMessage, GAME_STATE_SYNC: the value set at games/{id}/state
MainStatePayload(payload) == [payload EXCEPT !.gameData = RestOfGameData(@)]

\* sendMessage, GAME_STATE_SYNC: the value set at games/{id}/music
MusicPayload(payload) ==
    [lobbyMusicUrl |-> IF TruthyUrl(payload.gameData.lobbyMusicUrl)
                       THEN payload.gameData.lobbyMusicUrl ELSE "null"]

\* snapshot.val() of the music path: an object whose only child is null is no value
MusicSnapshot(music) ==
    IF music = <<>> \/ music[1].lobbyMusicUrl = "null" THEN <<>> ELSE music

\* combineAndDispatch: the payload given to messageHandler (mainState is set)
combineAndDispatch(mainState, musicData) ==
    LET url == IF musicData # <<>> /\ TruthyUrl(musicData[1].lobbyMusicUrl)
               THEN musicData[1].lobbyMusicUrl ELSE "null"
        data == mainState[1].gameData
    IN  [mainState[1] EXCEPT !.gameData =
            [f \in DOMAIN data \cup {"lobbyMusicUrl"} |->
                IF f = "lobbyMusicUrl" THEN url ELSE data[f]]]

musicVars == <<myPlayerId, presence, closure, stale, now, prev, nextId, store, peer, wire, view>>

InitMusic ==
    /\ \E r \in GmRules, m \in MusicUrls :
           gameData = [SETUP_GAME_DATA EXCEPT !.gmRules = r, !.lobbyMusicUrl = m]
    /\ currentPlayerIndex = 0
    /\ gamePhase = "setup"
    /\ gameMode = "online-gm"
    /\ myPlayerId = NoId
    /\ presence = {}
    /\ closure = HostIdle
    /\ stale = FALSE
    /\ now = 1
    /\ prev = INITIAL_GAME_DATA
    /\ lastAction = NoAction
    /\ steps = 1
    /\ nextId = NumIds + 1
    /\ store = NoStore
    /\ peer = NoPeer
    /\ wire = NoWire
    /\ view = NoView
    /\ LET payload == SyncPayload(gameData, currentPlayerIndex, gamePhase)
       IN  channel = [NoChannel EXCEPT !.state = <<MainStatePayload(payload)>>,
                                       !.music = <<MusicPayload(payload)>>,
                                       !.sent = <<payload>>]

\* a dispatch of the host, the render and the sync effect: sendMessage sets
\* the state path and then the music path
HostChange(action) ==
    /\ steps < MaxBroadcasts
    /\ channel.toWrite = <<>>
    /\ gameReducer(gameData, action, now) # gameData
    /\ gameData' = gameReducer(gameData, action, now)
    /\ LET payload == SyncPayload(gameData', currentPlayerIndex, gamePhase)
       IN  channel' = [channel EXCEPT !.state = <<MainStatePayload(payload)>>,
                                      !.toWrite = <<MusicPayload(payload)>>,
                                      !.stateEvent = channel.subscribed,
                                      !.sent = Append(@, payload)]
    /\ steps' = steps + 1
    /\ UNCHANGED <<currentPlayerIndex, gamePhase, gameMode, musicVars>>

\* GameSetup: 'Remove Music' when there is music, the file input when there is none
HostSetMusic ==
    \E m \in MusicUrls :
        /\ TruthyUrl(gameData.lobbyMusicUrl) <=> m = "null"
        /\ HostChange(Act("SET_LOBBY_MUSIC", m))
        /\ lastAction' = HostOp("SET_LOBBY_MUSIC", NoId)

\* GameSetup: the rules textarea
HostUpdateRules ==
    \E r \in GmRules :
        /\ HostChange(Act("UPDATE_GM_RULES", r))
        /\ lastAction' = HostOp("UPDATE_GM_RULES", NoId)

\* the second write of sendMessage reaches the store
MusicWritten ==
    /\ channel.toWrite # <<>>
    /\ channel' = [channel EXCEPT !.music = channel.toWrite,
                                  !.toWrite = <<>>,
                                  !.musicEvent = channel.subscribed]
    /\ lastAction' = HostOp("MUSIC_WRITTEN", NoId)
    /\ UNCHANGED <<gameData, currentPlayerIndex, gamePhase, gameMode, steps, musicVars>>

\* joinGameChannel: both listeners are attached, each is called with the
\* value its path holds
JoinChannel ==
    /\ ~channel.subscribed
    /\ channel' = [channel EXCEPT !.subscribed = TRUE, !.stateEvent = TRUE, !.musicEvent = TRUE,
                                  !.mainState = <<>>, !.musicData = <<>>]
    /\ lastAction' = HostOp("JOIN_CHANNEL", PeerId)
    /\ UNCHANGED <<gameData, currentPlayerIndex, gamePhase, gameMode, steps, musicVars>>

\* stateListener
StateListener ==
    /\ channel.subscribed
    /\ channel.stateEvent
    /\ channel' = [channel EXCEPT !.stateEvent = FALSE,
                                  !.mainState = channel.state,
                                  !.delivered = <<combineAndDispatch(channel.state, channel.musicData)>>]
    /\ lastAction' = HostOp("STATE_EVENT", PeerId)
    /\ UNCHANGED <<gameData, currentPlayerIndex, gamePhase, gameMode, steps, musicVars>>

\* musicListener
MusicListener ==
    /\ channel.subscribed
    /\ channel.musicEvent
    /\ LET musicData == MusicSnapshot(channel.music)
       IN  channel' = [channel EXCEPT !.musicEvent = FALSE,
                                      !.musicData = musicData,
                                      !.delivered = IF channel.mainState # <<>>
                                                    THEN <<combineAndDispatch(channel.mainState, musicData)>>
                                                    ELSE @]
    /\ lastAction' = HostOp("MUSIC_EVENT", PeerId)
    /\ UNCHANGED <<gameData, currentPlayerIndex, gamePhase, gameMode, steps, musicVars>>

NextMusic ==
    HostSetMusic \/ HostUpdateRules \/ MusicWritten \/ JoinChannel \/ StateListener \/ MusicListener

SpecMusic == InitMusic /\ [][NextMusic]_vars

(* ---------------------------- SpecTurn -------------------------------- *)
(* The turns of a local game in play.  The input panel of the turn-holder  *)
(* shows either the choices of the last log entry or the staging form;     *)
(* both handlers end with App.handleEndTurn, which runs in the render in   *)
(* which the button was drawn.                                             *)
MaxTurns == 3

\* the `choice` of a choice_selection payload: none (what handleChoiceSelection
\* passes), one without effects, one that pays a coin, one that costs a coin
TurnChoices == {NoChoice, PlainChoice, Effects(TRUE, 1, FALSE, 0, NoChar),
                Effects(TRUE, -1, FALSE, 0, NoChar)}

\* what the staging form holds when Apply & End Turn is pressed
TurnStaged == {<<>>, <<Dialogue("c1")>>, <<ChoiceEntry>>, <<Dialogue("c1"), ChoiceEntry>>}

\* const lastLog = gameData.storyLog[gameData.storyLog.length - 1];
\* const choicesToShow = lastLog?.type === 'choice' ? lastLog.choices : null
choicesToShow(data) ==
    data.storyLog # <<>> /\ data.storyLog[Len(data.storyLog)].type = "choice"

turnVars == <<gamePhase, gameMode, peer, wire, view, channel, store, myPlayerId, presence, closure, nextId, prev>>

InitTurn ==
    /\ \E log \in {<<>>, <<ChoiceEntry>>} :
           gameData = [SETUP_GAME_DATA EXCEPT !.storyLog = log]
    /\ currentPlayerIndex \in 0..1
    /\ gamePhase = "play"
    /\ gameMode = "local"
    /\ myPlayerId = NoId
    /\ presence = {}
    /\ closure = HostIdle
    /\ stale = FALSE
    /\ now = 1
    /\ prev = SETUP_GAME_DATA
    /\ lastAction = NoAction
    /\ steps = 0
    /\ nextId = NumIds + 1
    /\ store = NoStore
    /\ peer = NoPeer
    /\ wire = NoWire
    /\ view = NoView
    /\ channel = NoChannel

\* one handler of the input panel: its dispatches, then App.handleEndTurn with
\* the players, the index and the storyLog of the render
TurnRun(op, entries) ==
    /\ steps < MaxTurns
    /\ steps' = steps + 1
    /\ HostRun(op,
               [i \in DOMAIN entries |-> Act("ADD_LOG_ENTRY", entries[i])]
               \o EndTurnActions(gameData.players, currentPlayerIndex, Len(gameData.storyLog)),
               IndexAfterEndTurn(currentPlayerIndex, Len(gameData.players)))
    /\ UNCHANGED turnVars

\* GameView.handleEndTurn
TurnEndTurn ==
    \E staged \in TurnStaged :
        /\ ~choicesToShow(gameData)
        /\ TurnRun(HostOp("END_TURN", NoChoice), staged)

\* GameView.handleChoiceSelection with a payload that carries the choice
TurnChoose ==
    \E choice \in TurnChoices :
        LET entry == ChoiceSelection(gameData.players[currentPlayerIndex + 1].id, "c1", choice)
        IN  /\ choicesToShow(gameData)
            /\ ~Throws(gameData, Act("ADD_LOG_ENTRY", entry))
            /\ TurnRun(HostOp("CHOICE_SELECTION", choice), <<entry>>)

\* GameView.handleChoiceSelection with the payload it builds: the reducer
\* throws in the next render and the error boundary replaces the app
TurnChooseThrows ==
    \E choice \in TurnChoices :
        LET entry == ChoiceSelection(gameData.players[currentPlayerIndex + 1].id, "c1", choice)
        IN  /\ choicesToShow(gameData)
            /\ steps < MaxTurns
            /\ Throws(gameData, Act("ADD_LOG_ENTRY", entry))
            /\ lastAction' = Act("ERROR", Act("ADD_LOG_ENTRY", entry))
            /\ steps' = MaxTurns
            /\ UNCHANGED <<gameData, currentPlayerIndex, stale, now, turnVars>>

NextTurn == TurnEndTurn \/ TurnChoose \/ TurnChooseThrows

SpecTurn == InitTurn /\ [][NextTurn]_vars

(* --------------------------- SpecPresence ----------------------------- *)
(* One browser over several page loads: the App and the module state of    *)
(* networkService are in `peer`, the session id of the load is nextId, and *)
(* savedSessions is what localStorage keeps.  presence holds the entries   *)
(* this browser has written under games/{id}/presence and that are still   *)
(* there; a game is known by the session id of the load that hosted it,    *)
(* OtherGame is a game hosted elsewhere.                                   *)
MaxLoads == 3
OtherGame == 0

NoClient ==
    [myPlayerId |-> NoId, mode |-> "none", connectionStatus |-> "disconnected",
     isKicked |-> FALSE, subscribed |-> FALSE, timer |-> FALSE, hook |-> FALSE,
     savedSessions |-> {}]

PresenceEntry(id) == [name |-> NameOfId(id), id |-> id]
SavedSession(gameId, role, id) == [myPlayerId |-> id, gameId |-> gameId, role |-> role]

\* setSavedSessions(prev => [newSession, ...prev.filter(s => s.gameId !== newGameId)])
SaveSession(sessions, s) == {t \in sessions : t.gameId # s.gameId} \cup {s}

\* setupPresence: onDisconnectRef = ref.onDisconnect(); remove() is queued
SetupPresence(p) == [p EXCEPT !.hook = TRUE]

\* createGameChannel / joinGameChannel: closeChannel(), then the listeners
OpenChannel(p) == [CloseChannel(p) EXCEPT !.subscribed = TRUE]

\* removePresence: the hook is cancelled (the entry is removed by the caller's step)
RemovePresence(p) == [p EXCEPT !.hook = FALSE]

clientVars == <<gameData, currentPlayerIndex, gamePhase, gameMode, myPlayerId, closure, stale,
                now, prev, steps, store, wire, view, channel>>

InitPresence ==
    /\ gameData = INITIAL_GAME_DATA
    /\ currentPlayerIndex = 0
    /\ gamePhase = "setup"
    /\ gameMode = "local"
    /\ myPlayerId = NoId
    /\ presence = {}
    /\ closure = HostIdle
    /\ stale = FALSE
    /\ now = 1
    /\ prev = INITIAL_GAME_DATA
    /\ lastAction = NoAction
    /\ steps = 0
    /\ nextId = 1
    /\ store = NoStore
    /\ peer = NoClient
    /\ wire = NoWire
    /\ view = NoView
    /\ channel = NoChannel

\* hostOnlineGame: setupPresence if the host plays, then createGameChannel
ClientHost ==
    \E asPlayer \in BOOLEAN :
        LET hostPlayerId == IF asPlayer THEN nextId ELSE NoId
            afterPresence == IF asPlayer THEN SetupPresence(peer) ELSE peer
        IN  /\ peer.mode = "none"
            /\ peer' = [OpenChannel(afterPresence) EXCEPT
                           !.mode = "online-gm", !.myPlayerId = hostPlayerId,
                           !.savedSessions = SaveSession(@, SavedSession(nextId, "gm", hostPlayerId))]
            /\ presence' = IF asPlayer THEN presence \cup {PresenceEntry(nextId)} ELSE presence
            /\ lastAction' = HostOp("HOST_GAME", hostPlayerId)
            /\ UNCHANGED <<clientVars, nextId>>

\* joinOnlineGameAsPlayer(id, name): joinGameChannel, then setupPresence
JoinAsPlayer(gameId) ==
    /\ peer' = [SetupPresence(OpenChannel(peer)) EXCEPT
                   !.mode = "online-player", !.myPlayerId = nextId,
                   !.connectionStatus = "connecting", !.timer = TRUE,
                   !.savedSessions = SaveSession(@, SavedSession(gameId, "player", nextId))]
    /\ presence' = presence \cup {PresenceEntry(nextId)}
    /\ UNCHANGED <<clientVars, nextId>>

ClientJoin ==
    /\ peer.mode = "none"
    /\ JoinAsPlayer(OtherGame)
    /\ lastAction' = HostOp("JOIN_GAME", nextId)

\* handleRejoinSession of a host: createGameChannel, then setupPresence if the
\* session has a player
ClientRejoinHost ==
    \E s \in peer.savedSessions :
        LET afterChannel == OpenChannel(peer)
        IN  /\ peer.mode = "none"
            /\ s.role = "gm"
            /\ peer' = [(IF s.myPlayerId # NoId THEN SetupPresence(afterChannel) ELSE afterChannel)
                        EXCEPT !.mode = "online-gm", !.myPlayerId = s.myPlayerId]
            /\ presence' = IF s.myPlayerId # NoId
                           THEN presence \cup {PresenceEntry(s.myPlayerId)} ELSE presence
            /\ lastAction' = HostOp("REJOIN_HOST", s.myPlayerId)
            /\ UNCHANGED <<clientVars, nextId>>

\* handleRejoinSession of a player: joinOnlineGameAsPlayer(session.gameId, name)
ClientRejoinPlayer ==
    \E s \in peer.savedSessions :
        /\ peer.mode = "none"
        /\ s.role = "player"
        /\ JoinAsPlayer(s.gameId)
        /\ lastAction' = HostOp("REJOIN_PLAYER", nextId)

\* the first GAME_STATE_SYNC whose roster has this player
ClientSynced ==
    /\ peer.mode = "online-player"
    /\ peer.subscribed
    /\ peer.connectionStatus = "connecting"
    /\ peer' = [peer EXCEPT !.timer = TimerAfterSync(@), !.connectionStatus = "connected"]
    /\ lastAction' = HostOp("SYNC", peer.myPlayerId)
    /\ UNCHANGED <<clientVars, nextId, presence>>

\* a GAME_STATE_SYNC whose roster lacks this player: setIsKicked, closeChannel
ClientKicked ==
    /\ peer.mode = "online-player"
    /\ peer.subscribed
    /\ peer.connectionStatus \in {"connecting", "connected"}
    /\ peer' = CloseChannel([peer EXCEPT !.timer = TimerAfterSync(@),
                                         !.connectionStatus = "connected", !.isKicked = TRUE])
    /\ lastAction' = HostOp("KICKED", peer.myPlayerId)
    /\ UNCHANGED <<clientVars, nextId, presence>>

\* the join timer: setConnectionStatus('failed'), removePresence
ClientTimeout ==
    /\ peer.timer
    /\ peer' = [RemovePresence(peer) EXCEPT !.timer = FALSE, !.connectionStatus = "failed"]
    /\ presence' = presence \ {PresenceEntry(peer.myPlayerId)}
    /\ lastAction' = HostOp("JOIN_TIMEOUT", peer.myPlayerId)
    /\ UNCHANGED <<clientVars, nextId>>

\* handleLeaveGame of a host who plays: removePresence, setMyPlayerId(null)
ClientStopPlaying ==
    /\ peer.mode = "online-gm"
    /\ peer.myPlayerId # NoId
    /\ peer' = [RemovePresence(peer) EXCEPT !.myPlayerId = NoId]
    /\ presence' = presence \ {PresenceEntry(peer.myPlayerId)}
    /\ lastAction' = HostOp("STOP_PLAYING", peer.myPlayerId)
    /\ UNCHANGED <<clientVars, nextId>>

\* the page is loaded anew (window.location.reload(), or the tab is closed and
\* opened again): the server runs the hook of the connection if one is
\* registered; handleLeaveGame of a player calls removePresence before it
ClientReload ==
    \E leave \in BOOLEAN :
        LET removed == IF leave \/ peer.hook THEN {PresenceEntry(peer.myPlayerId)} ELSE {}
        IN  /\ nextId < MaxLoads
            /\ peer.mode # "none"
            /\ leave => peer.mode = "online-player" /\ ~peer.isKicked
                        /\ peer.connectionStatus = "connected"
            /\ peer' = [NoClient EXCEPT !.savedSessions = peer.savedSessions]
            /\ presence' = presence \ removed
            /\ nextId' = nextId + 1
            /\ lastAction' = HostOp(IF leave THEN "LEAVE_GAME" ELSE "RELOAD", peer.myPlayerId)
            /\ UNCHANGED clientVars

NextPresence ==
    \/ ClientHost \/ ClientJoin \/ ClientRejoinHost \/ ClientRejoinPlayer
    \/ ClientSynced \/ ClientKicked \/ ClientTimeout \/ ClientStopPlaying \/ ClientReload

SpecPresence == InitPresence /\ [][NextPresence]_vars

(* ================================ claims =============================== *)
(* Under Spec a step is one handler run; under SpecReducer it is one       *)
(* dispatch, prev is the document before it and lastAction the action.     *)

(* ------------------------- turn index (Spec) -------------------------- *)
\* C1: in every reachable host state, after any sequence of turn advances,
\* joins and roster removals, 0 <= currentPlayerIndex < max(1, len(players)).
TurnIndexInRange ==
    currentPlayerIndex >= 0 /\ currentPlayerIndex < Max(1, Len(gameData.players))

RemovalOps == {"KICK", "HOST_LEAVE", "LOCAL_LEAVE", "PRESENCE_REMOVED"}
RemovalRule(c, k, N) == IF k < c THEN c - 1 ELSE c % Max(1, N - 1)

\* C2: removing the player at index k of a roster of size N with current index
\* c yields c - 1 if k < c and c mod max(1, N - 1) otherwise, inside
\* 0 .. max(1, N - 1) - 1, for a leave, a kick and a disconnect alike.
RemovalFollowsRule ==
    [][LET removed == lastAction'.payload
           k == findIndex(gameData.players, LAMBDA p : p.id = removed)
           N == Len(gameData.players)
       IN  (lastAction'.type \in RemovalOps /\ k # -1)
           => /\ currentPlayerIndex' = RemovalRule(currentPlayerIndex, k, N)
              /\ currentPlayerIndex' >= 0
              /\ currentPlayerIndex' < Max(1, N - 1)]_vars

\* C3: every END_TURN the host processes takes currentPlayerIndex from c to
\* (c + 1) mod max(1, len(players)), len(players) being the roster's length
\* when the message is processed.
EndTurnAdvancesByOne ==
    [][lastAction'.type \in {"END_TURN", "LOCAL_END_TURN"}
       => currentPlayerIndex' = (currentPlayerIndex + 1) % Max(1, Len(gameData.players))]_vars

LastSeenBounded ==
    \A i \in DOMAIN gameData.players :
        gameData.players[i].lastSeenLogIndex <= Len(gameData.storyLog)
LastSeenGrows ==
    \A i \in DOMAIN gameData.players, j \in DOMAIN gameData'.players :
        gameData.players[i].id = gameData'.players[j].id
        => gameData'.players[j].lastSeenLogIndex >= gameData.players[i].lastSeenLogIndex

\* C5: every player's lastSeenLogIndex is at most len(storyLog) in every
\* reachable host state, and no host operation makes it smaller.
LastSeenNeverAhead == [][LastSeenBounded' /\ LastSeenGrows]_vars

(* --------------------------- log (SpecReducer) ------------------------ *)
\* C4 as written: every action but RESET_STORY_LOG keeps the old storyLog as a
\* prefix of the new one, and only RESET_STORY_LOG makes the log shorter.
LogShrinksOnlyOnReset ==
    /\ lastAction.type # "RESET_STORY_LOG" => IsPrefix(prev.storyLog, gameData.storyLog)
    /\ Len(gameData.storyLog) < Len(prev.storyLog) => lastAction.type = "RESET_STORY_LOG"

Replacing == {"RESET_STORY_LOG", "SET_GAME_DATA"}

\* C4, amended: every action but RESET_STORY_LOG and SET_GAME_DATA keeps the old
\* storyLog as a prefix of the new one; only those two can make it shorter.
LogAppendOnly ==
    /\ lastAction.type \notin Replacing => IsPrefix(prev.storyLog, gameData.storyLog)
    /\ Len(gameData.storyLog) < Len(prev.storyLog) => lastAction.type \in Replacing

\* an action appended to a log that already had entries
LogAppendReached ==
    /\ lastAction.type \in {"ADD_LOG_ENTRY", "UPDATE_CHARACTER", "UPDATE_QUEST"}
    /\ prev.storyLog # <<>>
    /\ Len(gameData.storyLog) > Len(prev.storyLog)

(* ---------------------- choice effects (SpecReducer) ------------------ *)
ChoiceWithEffects ==
    /\ lastAction.type = "ADD_LOG_ENTRY"
    /\ lastAction.payload.type = "choice_selection"
    /\ lastAction.payload.choice.hasEffects

\* the last action was a choice whose hp effect was applied to characters[i]
HpEffectOn(i) ==
    /\ ChoiceWithEffects
    /\ lastAction.payload.choice.hpSet
    /\ lastAction.payload.choice.hp # 0
    /\ i = findIndex(prev.characters, LAMBDA c : c.id = lastAction.payload.choice.target) + 1

\* the entries the last action appended
Appended == SubSeq(gameData.storyLog, Len(prev.storyLog) + 1, Len(gameData.storyLog))

\* C6: a choice_selection hp effect applied to a character whose health is in
\* [0, maxHealth] leaves the health in [0, maxHealth].
HealthStaysInRange ==
    \A i \in DOMAIN prev.characters :
        (HpEffectOn(i) /\ prev.characters[i].health \in 0..prev.characters[i].maxHealth)
        => gameData.characters[i].health \in 0..gameData.characters[i].maxHealth

Rank(e) ==
    CASE e.type = "choice_selection" -> 1
      [] e.type = "stat_change" /\ e.text.kind = "coins" -> 2
      [] e.type = "stat_change" /\ e.text.kind = "hp" -> 3
      [] e.type = "stat_change" /\ e.text.kind = "defeated" -> 4
      [] e.type = "sprite_change" -> 5
      [] OTHER -> 0

\* the appended entries start with the selection and keep the fixed order
KeepsOrder ==
    /\ Appended # <<>>
    /\ Appended[1] = lastAction.payload
    /\ \A a, b \in DOMAIN Appended : a < b => Rank(Appended[a]) < Rank(Appended[b])

\* the last action was a choice whose hp effect defeated characters[i], which
\* was active
DefeatingHpOn(i) ==
    /\ HpEffectOn(i)
    /\ prev.characters[i].status = "active"
    /\ prev.characters[i].health + lastAction.payload.choice.hp <= 0

\* ... and the choice had a coins effect too
DefeatingChoiceOn(i) ==
    /\ DefeatingHpOn(i)
    /\ lastAction.payload.choice.coinsSet
    /\ lastAction.payload.choice.coins # 0

ActingPlayerKnown ==
    \E i \in DOMAIN prev.players : prev.players[i].id = lastAction.payload.playerId

\* C8 as written: a choice with a coins effect and an hp effect that defeats an
\* existing active target appends exactly five entries: the selection, the
\* coin narration, the HP narration, the defeat narration, the sprite_change to
\* null; with fewer effects the produced entries keep that order.
FiveEntriesInOrder ==
    /\ ChoiceWithEffects => KeepsOrder
    /\ \A i \in DOMAIN prev.characters :
           DefeatingChoiceOn(i)
           => /\ Len(Appended) = 5
              /\ \A k \in 1..5 : Rank(Appended[k]) = k
              /\ Appended[5] = SpriteChange(prev.characters[i].id, NoAsset)

\* C8, amended: the five entries are appended when the acting player is in the
\* roster; for a playerId that is not in the roster (and for a coins effect of
\* 0) the coin narration is missing and the other four keep their order.
FiveEntriesForKnownPlayer ==
    /\ ChoiceWithEffects => KeepsOrder
    /\ \A i \in DOMAIN prev.characters :
           DefeatingHpOn(i)
           => LET target == prev.characters[i]
                  choice == lastAction.payload.choice
                  hpPart == <<StatChange(HpText(target.name, choice.hp, 0, target.maxHealth)),
                              StatChange(DefeatedText(target.name)),
                              SpriteChange(target.id, NoAsset)>>
              IN  IF ActingPlayerKnown /\ choice.coinsSet /\ choice.coins # 0
                  THEN LET player == prev.players[findIndex(prev.players,
                                         LAMBDA p : p.id = lastAction.payload.playerId) + 1]
                       IN  Appended = <<lastAction.payload,
                                        StatChange(CoinText(player.name, choice.coins))>> \o hpPart
                  ELSE Appended = <<lastAction.payload>> \o hpPart

\* all five entries were appended by one choice
FiveEntriesReached ==
    /\ \E i \in DOMAIN prev.characters : DefeatingChoiceOn(i)
    /\ ActingPlayerKnown
    /\ Len(Appended) = 5

CoinNarrations == {k \in DOMAIN Appended : Rank(Appended[k]) = 2}
BalanceChanged ==
    \E i \in DOMAIN prev.players : gameData.players[i].coins # prev.players[i].coins
\* every balance is the old one, plus d for the players with the given id
BalancesAfter(id, d) ==
    /\ Len(gameData.players) = Len(prev.players)
    /\ \A i \in DOMAIN prev.players :
           gameData.players[i] =
               [prev.players[i] EXCEPT !.coins = @ + (IF prev.players[i].id = id THEN d ELSE 0)]

\* C9 as written: effects.coins = d changes the balance of the entry's player
\* by d and appends one coin narration, for every d that is set, leaving the
\* other balances alone; a coin narration is appended only with a changed balance.
CoinsEffectWheneverSet ==
    ChoiceWithEffects
    => /\ lastAction.payload.choice.coinsSet
          => /\ BalancesAfter(lastAction.payload.playerId, lastAction.payload.choice.coins)
             /\ Cardinality(CoinNarrations) = 1
       /\ CoinNarrations # {} => BalanceChanged

\* C9, amended: for d not 0 and a playerId in the roster the balance of that
\* player changes by d, one coin narration is appended and the other balances
\* stay; for d = 0, d unset or an unknown playerId no balance changes and no
\* coin narration is appended.
CoinsEffectWhenNonZero ==
    ChoiceWithEffects
    => LET choice == lastAction.payload.choice IN
       IF choice.coinsSet /\ choice.coins # 0 /\ ActingPlayerKnown
       THEN /\ BalancesAfter(lastAction.payload.playerId, choice.coins)
            /\ Cardinality(CoinNarrations) = 1
            /\ BalanceChanged
       ELSE /\ gameData.players = prev.players
            /\ CoinNarrations = {}

\* a choice took a coin from the acting player
CoinsEffectReached ==
    /\ ChoiceWithEffects
    /\ lastAction.payload.choice.coins = -1
    /\ ActingPlayerKnown
    /\ BalanceChanged
    /\ Cardinality(CoinNarrations) = 1

(* ------------------------ idempotence (SpecReducer) -------------------- *)
\* C10: a second delivery of UPDATE_QUEST, REMOVE_PLAYER or ADD_PLAYER leaves
\* the state of the first; UPDATE_QUEST to the status the quest has or to an
\* unknown id, REMOVE_PLAYER of an absent id and ADD_PLAYER of a present id
\* return the state unchanged.
DuplicateDeliveryChangesNothing ==
    /\ lastAction.type \in {"UPDATE_QUEST", "REMOVE_PLAYER", "ADD_PLAYER"}
       => gameReducer(gameData, lastAction, now) = gameData
    /\ (lastAction.type = "UPDATE_QUEST"
          /\ \A i \in DOMAIN prev.quests :
                 prev.quests[i].id = lastAction.payload.id
                 => prev.quests[i].status = lastAction.payload.status)
       => gameData = prev
    /\ (lastAction.type = "REMOVE_PLAYER"
          /\ \A i \in DOMAIN prev.players : prev.players[i].id # lastAction.payload.id)
       => gameData = prev
    /\ (lastAction.type = "ADD_PLAYER"
          /\ \E i \in DOMAIN prev.players : prev.players[i].id = lastAction.payload.id)
       => gameData = prev

\* a quest that was completed is completed once more
SecondCompletionReached ==
    /\ lastAction.type = "UPDATE_QUEST"
    /\ lastAction.payload.status = "completed"
    /\ \E i \in DOMAIN prev.quests :
           prev.quests[i].id = lastAction.payload.id /\ prev.quests[i].status = "completed"
    /\ gameData = prev

(* --------------------------- roster (SpecLobby) ------------------------ *)
RosterIds(players) == {players[i].id : i \in DOMAIN players}

\* C11: ADD_PLAYER returns the state unchanged when the roster holds MAX_PLAYERS
\* players or already holds the payload id (a join request that dispatches it
\* leaves the roster unchanged); after any sequence of ADD_PLAYER, UPDATE_PLAYER,
\* REMOVE_PLAYER and join requests from the empty roster len(players) is at most
\* MAX_PLAYERS and the ids in the roster are pairwise distinct.
RosterBoundedAndDistinct ==
    [][/\ (/\ lastAction'.type \in {"ADD_PLAYER", "JOIN"}
           /\ \/ Len(gameData.players) >= MAX_PLAYERS
              \/ lastAction'.payload.id \in RosterIds(gameData.players))
          => /\ gameData'.players = gameData.players
             /\ lastAction'.type = "ADD_PLAYER" => gameData' = gameData
       /\ Len(gameData'.players) <= MAX_PLAYERS
       /\ Cardinality(RosterIds(gameData'.players)) = Len(gameData'.players)]_vars

\* an ADD_PLAYER of a new id was refused by a full roster
FullRosterRefusedAdd ==
    /\ Len(gameData.players) = MAX_PLAYERS
    /\ lastAction.type = "ADD_PLAYER"
    /\ lastAction.payload.id \notin RosterIds(gameData.players)

(* ------------------------ join requests (SpecLobby) -------------------- *)
\* the step delivered a PLAYER_JOIN_REQUEST to the host's handler
JoinDelivered == lastAction'.type \in {"JOIN", "JOIN_REJECTED"}
OneSystemMessageAppended ==
    /\ Len(gameData'.lobbyChatLog) = Len(gameData.lobbyChatLog) + 1
    /\ SubSeq(gameData'.lobbyChatLog, 1, Len(gameData.lobbyChatLog)) = gameData.lobbyChatLog
    /\ gameData'.lobbyChatLog[Len(gameData'.lobbyChatLog)].senderId = NoId
DistinctNames(players) ==
    \A i, j \in DOMAIN players :
        i # j => toLowerCase(players[i].name) # toLowerCase(players[j].name)

\* C16: a PLAYER_JOIN_REQUEST whose name equals, ignoring case, the name of a
\* player in the roster leaves the roster unchanged, appends no storyLog
\* entry and appends exactly one system-authored message to lobbyChatLog.
DuplicateNameJoinRefused ==
    [][(JoinDelivered /\ NameInUse(gameData.players, lastAction'.payload.name))
          => /\ gameData'.players = gameData.players
             /\ gameData'.storyLog = gameData.storyLog
             /\ OneSystemMessageAppended]_vars

\* C17: a PLAYER_JOIN_REQUEST never makes two players of the roster carry
\* names that are equal ignoring case, also when two requests with the same
\* name are delivered back to back before the handler is registered again.
JoinKeepsNamesDistinct ==
    [][(JoinDelivered /\ DistinctNames(gameData.players))
          => DistinctNames(gameData'.players)]_vars

\* C18: a PLAYER_JOIN_REQUEST with a name that is not in use, delivered while
\* the roster holds MAX_PLAYERS players, leaves the roster unchanged and is
\* recorded as one system-authored entry of lobbyChatLog.
FullRosterJoinRefusedWithMessage ==
    [][(/\ JoinDelivered
        /\ ~NameInUse(gameData.players, lastAction'.payload.name)
        /\ Len(gameData.players) >= MAX_PLAYERS)
          => /\ gameData'.players = gameData.players
             /\ OneSystemMessageAppended]_vars

\* C19: the log entry '(name) Has Joined the Game!' is appended exactly when
\* the phase is play and the request added the player to the roster.
JoinLogIffAdded ==
    [][JoinDelivered
          => ((gameData'.storyLog =
                  Append(gameData.storyLog, StatChange(JoinedText(lastAction'.payload.name))))
              <=> (gamePhase = "play" /\ gameData'.players # gameData.players))]_vars

(* ---------------------------- assets (SpecAssets) ---------------------- *)
AssetIdsOf(state) == {state.assets[i].id : i \in DOMAIN state.assets}
Without(ids, id) == SelectSeq(ids, LAMBDA x : x # id)

AssetActions ==
    {"ADD_ASSET", "SUBMIT_ASSET_FOR_APPROVAL", "APPROVE_ASSET", "REJECT_ASSET", "DELETE_ASSET"}
ReferencesResolve(state) ==
    /\ \A i \in DOMAIN state.pendingAssetApprovals :
           state.pendingAssetApprovals[i].assetId \in AssetIdsOf(state)
    /\ \A i \in DOMAIN state.characters :
           \A k \in DOMAIN state.characters[i].spriteAssetIds :
               state.characters[i].spriteAssetIds[k] \in AssetIdsOf(state)

\* C13: in every state reached through ADD_ASSET, SUBMIT_ASSET_FOR_APPROVAL,
\* APPROVE_ASSET, REJECT_ASSET and DELETE_ASSET, every assetId of
\* pendingAssetApprovals and every element of every character's
\* spriteAssetIds is the id of an asset of assets.
AssetReferencesResolve ==
    [][(lastAction'.type \in AssetActions /\ ReferencesResolve(gameData))
          => ReferencesResolve(gameData')]_vars

(* ------------------------ snapshots (SpecSnapshot) --------------------- *)
\* C14: SET_GAME_DATA with a snapshot from which any subset of the collection
\* fields is absent yields a state in which each absent field is the empty
\* list and each present field is the snapshot's value; the other fields come
\* from the snapshot too (title and lobbyMusicUrl with their defaults), so
\* nothing of the previous local state survives.
SnapshotReplacesState ==
    lastAction.type = "SET_GAME_DATA" =>
        LET payload == lastAction.payload
        IN  /\ \A f \in CollectionFields :
                   gameData[f] = IF f \in payload.omitted THEN <<>> ELSE payload.data[f]
            /\ gameData.gmRules = payload.data.gmRules
            /\ gameData.title = IF "title" \in payload.omitted THEN "Untitled Adventure"
                                ELSE payload.data.title
            /\ gameData.lobbyMusicUrl = IF "lobbyMusicUrl" \in payload.omitted THEN "null"
                                        ELSE payload.data.lobbyMusicUrl

\* a snapshot without players and with assets replaced a local state that
\* had players and no assets
SnapshotDroppedLocalPlayers ==
    /\ lastAction.type = "SET_GAME_DATA"
    /\ "players" \in lastAction.payload.omitted
    /\ "assets" \notin lastAction.payload.omitted
    /\ prev.players # <<>>
    /\ prev.assets = <<>>
    /\ gameData.players = <<>>
    /\ gameData.assets # <<>>

(* ------------------------- totality (SpecReducer) ---------------------- *)
\* C15: the reducer is total: for every action, an unrecognised tag or a
\* malformed payload (an ADD_LOG_ENTRY choice_selection entry without a
\* `choice` field) included, it returns a state and never ends in an error;
\* for an unrecognised tag the returned state is the input state.
ReducerIsTotal ==
    /\ lastAction.type # "ERROR"
    /\ lastAction.type = "NOT_AN_ACTION" => gameData = prev

(* --------------------------- rejoin (SpecRejoin) ----------------------- *)
\* C20: after the host has rejoined a session whose actions inbox still holds
\* the messages it had handled, and no new message has arrived, the host's
\* gameData, currentPlayerIndex and gamePhase are those of the snapshot: the
\* messages of the inbox are not applied a second time.
RejoinRestoresSnapshot ==
    lastAction.type = "REJOIN" =>
        /\ gameData = store.state.gameData
        /\ currentPlayerIndex = store.state.currentPlayerIndex
        /\ gamePhase = store.state.gamePhase

(* --------------------- a peer and its host (SpecPeer) ------------------ *)
\* C21: when a peer whose id is in the synced roster handles a
\* GAME_STATE_SYNC, its local gameData is SET_GAME_DATA applied to the
\* payload's gameData and its currentPlayerIndex and gamePhase are the
\* payload's, whatever its local view was before.
SyncReplacesLocalView ==
    [][(wire.fresh /\ lastAction'.type = "SYNC" /\ ~wire'.fresh
        /\ ~MissingFromRoster(peer.myPlayerId, store.state))
       => /\ peer'.gameData = ReduceSetGameData(Wire(store.state.gameData))
          /\ peer'.currentPlayerIndex = store.state.currentPlayerIndex
          /\ peer'.gamePhase = store.state.gamePhase
          /\ ~peer'.isKicked]_vars

\* a sync replaced a local view that was neither the initial one nor the
\* payload's, and moved the index
SyncOverwroteLocalView ==
    /\ lastAction.type = "SYNC"
    /\ ~peer.isKicked
    /\ prev # INITIAL_GAME_DATA
    /\ prev # peer.gameData
    /\ peer.currentPlayerIndex # 0
    /\ peer.gameData = ReduceSetGameData(Wire(store.state.gameData))

\* C22: in online-player mode a dispatched game action or an ended turn
\* leaves the peer's local gameData and currentPlayerIndex as they were and
\* appends exactly one message (DISPATCH_ACTION or END_TURN) to the inbox;
\* the peer's gameData changes only when it handles a GAME_STATE_SYNC, and
\* the state path is written by the host only.
PeerOnlySendsMessages ==
    [][(peer.mode = "online-player" /\ peer'.mode = "online-player")
       => /\ lastAction'.type \in {"PEER_DISPATCH", "PEER_END_TURN"}
             => /\ peer'.gameData = peer.gameData
                /\ peer'.currentPlayerIndex = peer.currentPlayerIndex
                /\ Len(store'.actions) = Len(store.actions) + 1
                /\ SubSeq(store'.actions, 1, Len(store.actions)) = store.actions
                /\ store'.actions[Len(store'.actions)].type =
                       (IF lastAction'.type = "PEER_DISPATCH" THEN "DISPATCH_ACTION" ELSE "END_TURN")
          /\ peer'.gameData # peer.gameData => lastAction'.type = "SYNC"
          /\ store'.state # store.state => lastAction'.type = "RERENDER"]_vars

FirstSyncConnects ==
    [][/\ (lastAction'.type = "SYNC" /\ wire.fresh /\ ~wire'.fresh
           /\ peer.connectionStatus = "connecting")
          => /\ peer'.connectionStatus = "connected"
             /\ ~peer'.isKicked
       /\ (~peer.isKicked /\ peer'.isKicked)
          => \E i \in DOMAIN peer.gameData.players : peer.gameData.players[i].id = PeerId]_vars

\* C25: if the join timer fires before any sync was handled, the status
\* becomes failed, the presence entry is removed, the disconnect hook is
\* cancelled and nothing is retried; if a sync is handled first the timer
\* is cancelled and the status never becomes failed afterwards.
JoinTimerOrSync ==
    [][/\ lastAction'.type = "JOIN_TIMEOUT"
          => /\ peer.connectionStatus = "connecting"
             /\ peer'.connectionStatus = "failed"
             /\ PeerEntry \notin presence'
             /\ ~peer'.hook
             /\ ~peer'.timer
             /\ store'.actions = store.actions
       /\ (peer.connectionStatus = "failed" /\ lastAction'.type # "RELOAD")
          => /\ store'.actions = store.actions
             /\ PeerEntry \notin presence'
       /\ lastAction'.type = "SYNC" => ~peer'.timer
       /\ (peer.connectionStatus = "connected" /\ lastAction'.type \notin {"RELOAD", "PEER_LEAVE"})
          => peer'.connectionStatus = "connected"]_vars

\* the timer fired on a peer still connecting: failed, presence entry gone
JoinTimedOut ==
    /\ lastAction.type = "JOIN_TIMEOUT"
    /\ peer.connectionStatus = "failed"
    /\ PeerEntry \notin presence
    /\ store.actions # <<>>

\* C26: whatever the order of the peer's join timeout, the host's handling
\* of that peer's PLAYER_JOIN_REQUEST and the host's handling of the removal
\* of its presence entry, once all three are done the host's roster does not
\* contain the failed peer's id.
FailedPeerLeavesNoPlayer ==
    (/\ peer.connectionStatus = "failed"
     /\ wire.handled = Len(store.actions)
     /\ wire.removed = <<>>)
    => ~\E i \in DOMAIN gameData.players : gameData.players[i].id = PeerId

\* C27: when a peer becomes kicked its presence entry has been removed and
\* its subscriptions are detached; no presence entry of a kicked peer stays
\* behind without a registered disconnect hook.
KickedPeerHasNoPresence ==
    peer.isKicked =>
        /\ ~peer.subscribed
        /\ PeerEntry \notin presence
        /\ PeerEntry \in presence => peer.hook

(* ----------------------------- departures (Spec) ----------------------- *)
\* C28: each departure of a rostered player is handled once: when the host
\* is told of the removal of a presence entry, a player still in the roster
\* is removed with one '(name) Has Left the Game!' entry and one index
\* adjustment, and a player who has already been removed (the host playing
\* as a player has left and then removed its own presence) gets no second
\* entry and no second adjustment, even when the handler holds a stale
\* roster.
DepartureHandledOnce ==
    [][\A e \in presence \ presence' :
           LET players == gameData.players
               rostered == \E i \in DOMAIN players : players[i].id = e.id
           IN  /\ ~\E i \in DOMAIN gameData'.players : gameData'.players[i].id = e.id
               /\ rostered
                  => /\ Len(gameData'.players) = Len(players) - 1
                     /\ Len(gameData'.storyLog) = Len(gameData.storyLog) + 1
                     /\ gameData'.storyLog[Len(gameData'.storyLog)].text = LeftText(e.name)
                     /\ currentPlayerIndex' =
                            IndexAfterRemoval(currentPlayerIndex,
                                              findIndex(players, LAMBDA p : p.id = e.id),
                                              Len(players))
               /\ ~rostered
                  => /\ gameData'.storyLog = gameData.storyLog
                     /\ currentPlayerIndex' = currentPlayerIndex]_vars

(* --------------------- the scene of GameView (SpecPlayback) ------------ *)
\* the last entry of a type in a prefix, or 0
LastOfType(prefix, type) ==
    LET is == {i \in DOMAIN prefix : prefix[i].type = type}
    IN  IF is = {} THEN 0 ELSE CHOOSE i \in is : \A j \in is : j <= i

\* the scene that a prefix of the log describes: for the background and the
\* image, the asset of the last entry of that kind, looked up in the asset
\* table; for each character, the sprite of its last sprite change
SceneOfPrefix(prefix, assets) ==
    LET bg == LastOfType(prefix, "background_change")
        cg == LastOfType(prefix, "cg_show")
    IN  [backgroundUrl |-> IF bg = 0 THEN "null" ELSE findAssetUrl(assets, prefix[bg].assetId),
         cgUrl |-> IF cg = 0 THEN "null" ELSE findAssetUrl(assets, prefix[cg].assetId),
         sprites |-> [c \in CharIds |->
                        LET is == {i \in DOMAIN prefix : /\ prefix[i].type = "sprite_change"
                                                         /\ prefix[i].characterId = c}
                        IN  IF is = {} THEN "unset"
                            ELSE prefix[CHOOSE i \in is : \A j \in is : j <= i].assetId],
         dialogue |-> NoDialogue]

\* C29: the starting scene that the catch-up folds from
\* storyLog[0, lastSeenLogIndex) is a function of that prefix and of the
\* asset table only: it does not depend on the scene held before, on the
\* entries after the prefix or on how often it is computed.
StartingSceneFromPrefixOnly ==
    [][lastAction'.type \in {"MOUNT", "SYNC", "END_TURN"}
       => view'.baseScene =
              SceneOfPrefix(Slice(gameData'.storyLog, 0,
                                  LastSeenIndex(gameMode, gameData'.players,
                                                currentPlayerIndex', myPlayerId)),
                            gameData'.assets)]_vars

\* a catch-up replaced a scene with an image by the scene of a prefix without
\* one, with later entries still to be played
CatchUpDroppedHeldScene ==
    /\ lastAction.type \in {"SYNC", "END_TURN"}
    /\ view.replaced.cgUrl # "null"
    /\ view.baseScene.cgUrl = "null"
    /\ view.baseScene # EmptyScene
    /\ view.logsToPlay # <<>>

\* the first entry at or after position p (0-based) at which a beat stops,
\* or the length of the log when there is none
FirstStop(logs, p) ==
    LET stops == {i \in p..(Len(logs) - 1) :
                     logs[i + 1].type \in {"dialogue", "choice_selection", "choice"}}
    IN  IF stops = {} THEN Len(logs) ELSE CHOOSE i \in stops : \A j \in stops : i <= j

CurrentPlayerId(players, index) == IF HasIndex(players, index) THEN players[index + 1].id ELSE NoId

\* C30: in stepped playback each displayed beat is made of all the
\* scene-mutating entries from the position up to the next dialogue,
\* choice_selection or choice entry, applied together; each advance moves the
\* position to just after that entry (or to the end of the log); the position
\* never moves without an advance signal and no dialogue or choice_selection
\* entry is skipped.
PlaybackIsStepped ==
    [][LET logs == view.logsToPlay
           p == view.playbackLogIndex
           stop == FirstStop(logs, p)
       IN  /\ (lastAction'.type = "PLAYBACK_EFFECT" /\ p < Len(logs))
              => /\ view'.playbackLogIndex = p
                 /\ view'.baseScene =
                        [FoldScene(gameData.assets, Slice(logs, p, stop), view.baseScene)
                            EXCEPT !.dialogue =
                                IF stop < Len(logs) /\ logs[stop + 1].type # "choice"
                                THEN DialogueOf(gameData.characters, logs[stop + 1])
                                ELSE NoDialogue]
           /\ lastAction'.type = "ADVANCE"
              => /\ view'.playbackLogIndex = (IF stop < Len(logs) THEN stop + 1 ELSE Len(logs))
                 /\ \A i \in p..(view'.playbackLogIndex - 2) :
                        logs[i + 1].type \notin {"dialogue", "choice_selection"}
           /\ (/\ view.playbackState = "playing"
               /\ view'.playbackState = "playing"
               /\ view'.playbackLogIndex # p
               /\ CurrentPlayerId(gameData'.players, currentPlayerIndex')
                      = CurrentPlayerId(gameData.players, currentPlayerIndex))
              => lastAction'.type = "ADVANCE"]_vars

\* C31: once the next unplayed entry of stepped playback is a choice entry,
\* no advance signal moves the playback position past it; playback stays at
\* the choice until a choice_selection has been appended after it.
ChoiceHaltsPlayback ==
    [][lastAction'.type = "ADVANCE"
       => \A i \in view.playbackLogIndex..(view'.playbackLogIndex - 1) :
              view.logsToPlay[i + 1].type = "choice"
              => /\ i + 1 < Len(view.logsToPlay)
                 /\ view.logsToPlay[i + 2].type = "choice_selection"]_vars

\* C32: a playback advance never changes a player's lastSeenLogIndex; it is
\* changed only when the turn-holder's turn ends, and the value written then
\* is the full length of storyLog at that moment, the entries appended by the
\* same end of turn included.
LastSeenWrittenAtEndOfTurn ==
    [][/\ lastAction'.type \in {"ADVANCE", "PLAYBACK_EFFECT"} => gameData'.players = gameData.players
       /\ \A i \in DOMAIN gameData.players :
              (/\ i \in DOMAIN gameData'.players
               /\ gameData'.players[i].lastSeenLogIndex # gameData.players[i].lastSeenLogIndex)
              => /\ lastAction'.type = "END_TURN"
                 /\ i = currentPlayerIndex + 1
                 /\ gameData'.players[i].lastSeenLogIndex = Len(gameData'.storyLog)]_vars

(* ------------------- state and music paths (SpecMusic) ----------------- *)
LastSent == channel.sent[Len(channel.sent)]

\* C33: for every GAME_STATE_SYNC payload the value sendMessage writes under
\* state has no lobbyMusicUrl, the value written under music is
\* {lobbyMusicUrl} of the payload (null when there is none), and combining the
\* two written values as joinGameChannel does gives the original payload.
SplitThenCombineIsPayload ==
    channel.toWrite = <<>>
    => /\ "lobbyMusicUrl" \notin DOMAIN channel.state[1].gameData
       /\ DOMAIN channel.state[1].gameData = DOMAIN LastSent.gameData \ {"lobbyMusicUrl"}
       /\ channel.music = <<[lobbyMusicUrl |-> LastSent.gameData.lobbyMusicUrl]>>
       /\ combineAndDispatch(channel.state, channel.music) = LastSent
       /\ combineAndDispatch(channel.state, MusicSnapshot(channel.music)) = LastSent

\* both writes of a broadcast with music have landed, after one without music
MusicSplitOffAndWritten ==
    /\ lastAction.type = "MUSIC_WRITTEN"
    /\ channel.music[1].lobbyMusicUrl # "null"
    /\ \E i \in DOMAIN channel.sent : channel.sent[i].gameData.lobbyMusicUrl = "null"

\* C39: every GAME_STATE_SYNC that joinGameChannel delivers to the handler
\* combines a main state and a music value that the host wrote in one and the
\* same broadcast: the payload handled is the payload of one broadcast.
DeliveredIsOneBroadcast ==
    channel.delivered # <<>>
    => \E i \in DOMAIN channel.sent : channel.delivered[1] = channel.sent[i]

(* ------------------------ convergence (SpecPeerLive) ------------------- *)
PeerInRoster == \E i \in DOMAIN gameData.players : gameData.players[i].id = PeerId

PeerHoldsHostState ==
    /\ peer.gameData = gameData
    /\ peer.currentPlayerIndex = currentPlayerIndex
    /\ peer.gamePhase = gamePhase

\* C34: when the host makes finitely many changes of its state and the
\* transport keeps delivering the latest value, a connected peer that is in
\* the roster eventually holds, and keeps, a gameData, currentPlayerIndex and
\* phase equal to the host's final values, also when broadcasts in between
\* were never delivered.
PeerConverges ==
    <>[]((/\ peer.connectionStatus = "connected"
          /\ ~peer.isKicked
          /\ PeerInRoster)
         => PeerHoldsHostState)

(* --------------------------- narrator (SpecReducer) -------------------- *)
\* C35: in every state reachable from the initial session state through any
\* sequence of reducer actions (DELETE_CHARACTER, UPDATE_CHARACTER,
\* BATCH_ADD_DATA and SET_GAME_DATA among them), characters contains a
\* character with id 'narrator'.
NarratorAlwaysPresent ==
    lastAction.type # "ERROR"
    => \E i \in DOMAIN gameData.characters : gameData.characters[i].id = "narrator"

(* --------------------------- asset ids (SpecReducer) ------------------- *)
\* C36: after any sequence of ADD_ASSET, BATCH_ADD_ASSETS,
\* SUBMIT_ASSET_FOR_APPROVAL and DELETE_ASSET, two of them at the same
\* timestamp included, no two assets share an id, and the id of a deleted
\* asset is not given to a later asset.
AssetIdsUniqueNeverReused ==
    [][lastAction'.type \in {"ADD_ASSET", "BATCH_ADD_ASSETS", "SUBMIT_ASSET_FOR_APPROVAL", "DELETE_ASSET"}
       => /\ \A i, j \in DOMAIN gameData'.assets :
                 i # j => gameData'.assets[i].id # gameData'.assets[j].id
          /\ \A i \in DOMAIN gameData'.assets :
                 i > Len(gameData.assets)
                 => gameData'.assets[i].id \notin AssetIdsOf(prev) \ AssetIdsOf(gameData)]_vars

EndTurnKeepsRoster ==
    [][(/\ lastAction'.type \in {"END_TURN", "CHOICE_SELECTION"}
        /\ ~(lastAction'.payload.hasEffects /\ lastAction'.payload.coinsSet))
       => /\ Len(gameData'.players) = Len(gameData.players)
          /\ \A i \in DOMAIN gameData.players :
                 LET before == gameData.players[i]
                     after == gameData'.players[i]
                 IN  /\ after.id = before.id
                     /\ after.name = before.name
                     /\ after.isWaitingForApproval = before.isWaitingForApproval
                     /\ after.coins = before.coins
                     /\ i # currentPlayerIndex + 1
                        => after.lastSeenLogIndex = before.lastSeenLogIndex]_vars

\* C38: whenever this client has written its presence entry and has not yet
\* removed it, a disconnect hook is registered for that entry and not
\* cancelled; so it is after joinOnlineGameAsPlayer, handleRejoinSession and
\* hostOnlineGame with asPlayer.
PresenceEntryHasHook ==
    \A e \in presence : peer.hook /\ e.id = peer.myPlayerId

\* the same, for the entry of a client that joined or rejoined and was not kicked
JoinedPresenceHasHook ==
    (/\ lastAction.type \in {"JOIN_GAME", "REJOIN_HOST", "REJOIN_PLAYER"}
     /\ peer.myPlayerId # NoId)
    => /\ PresenceEntry(peer.myPlayerId) \in presence
       /\ peer.hook

====
